---- MODULE Spec2Model ----
(***************************************************************************)
(* BevScan invoice pipeline: the Extraction Manager (modules/ocr/engine.py) *)
(* with its adapters, the LLM client factory (modules/llm/client.py) and   *)
(* the pipeline orchestrator (modules/parsing/pipeline.py) with its two    *)
(* validators.                                                             *)
(*                                                                         *)
(* Python values are modelled as follows.                                  *)
(*   - a str is a sequence of one-character strings;                       *)
(*   - a confidence (a float in 0..1) is an exact rational [n, d];         *)
(*   - a money amount (a float) is an integer number of cents;             *)
(*   - a dict is a record; a key the dict lacks is a field the record      *)
(*     lacks, and reading it raises (KeyError);                            *)
(*   - an exception is an outcome [kind |-> "raise"] that the enclosing    *)
(*     try/except of the source turns into its handler's value.            *)
(***************************************************************************)
EXTENDS Integers, Sequences, FiniteSets, TLC

VARIABLES
    pc,                   \* position of the caller / of the running coroutine
    primary_engine,       \* OCREngine.primary_engine
    tesseract_available,  \* TesseractEngine.available, probed at construction
    stats,                \* OCREngine.stats
    llm_client,           \* InvoiceParsingPipeline.llm_client (class name)
    processed_invoices,   \* DuplicateValidator.processed_invoices
    price_history,        \* PriceValidator.price_history
    validating,           \* frames of the DuplicateValidator.validate calls
                          \* running on their own, one per caller
    file_path,            \* argument of the running call
    et,                   \* frame of the running OCREngine.extract_text call
    run,                  \* frame of the running parse_invoice call
    result,               \* value returned to the caller by the last call
    escaped,              \* TRUE when an exception reached the caller
    hist                  \* observation log of the running call (history)

vars == <<pc, primary_engine, tesseract_available, stats, llm_client,
          processed_invoices, price_history, validating, file_path, et, run,
          result, escaped, hist>>

engineVars == <<primary_engine, tesseract_available>>
validatorVars == <<processed_invoices, price_history, validating>>

-----------------------------------------------------------------------------
(* Bounds of the model *)

MaxRuns == 2      \* parse_invoice calls made on one pipeline instance
MaxCalls == 3     \* calls made on one stand-alone OCREngine or LLM client
MaxProse == 1     \* characters of prose before and after a JSON text
MaxResets == 2    \* clear_cache calls and new validators of one caller
MaxText == 4      \* characters of a text given to the Text Normalizer

-----------------------------------------------------------------------------
(* Exact rationals for float confidences *)

RECURSIVE GCD(_, _)
GCD(a, b) == IF b = 0 THEN a ELSE GCD(b, a % b)

Rat(n, d) == LET g == GCD(n, d) IN [n |-> n \div g, d |-> d \div g]

RatAdd(x, y) == Rat(x.n * y.d + y.n * x.d, x.d * y.d)
RatMulInt(x, k) == Rat(x.n * k, x.d)
RatDivInt(x, k) == Rat(x.n, x.d * k)
RatLeq(x, y) == x.n * y.d <= y.n * x.d

RatZero == Rat(0, 1)

-----------------------------------------------------------------------------
(* Files: what os.path.exists and Path(file_path).suffix see of a path *)

Suffixes == {".pdf", ".png", ".jpg", ".jpeg", ".tiff", ".bmp",
             ".PDF", ".Jpg", ".txt", ".gif", ".docx", ""}

\* str.lower() on the suffixes above
lower(s) ==
    CASE s = ".PDF" -> ".pdf"
      [] s = ".Jpg" -> ".jpg"
      [] OTHER -> s

FilePaths == [exists : BOOLEAN, suffix : Suffixes]

\* a file_path argument that is no str (None): there is no such file
NonePath == [exists |-> FALSE, suffix |-> "", not_str |-> TRUE]

\* what a caller may hand to extract_text or parse_invoice
Arguments == FilePaths \cup {NonePath}

\* OCREngine._validate_file raises: os.path.exists(None) is a TypeError
validate_file_raises(f) == "not_str" \in DOMAIN f

supported_extensions == {".pdf", ".png", ".jpg", ".jpeg", ".tiff", ".bmp"}

validate_file_nolower(f) ==
    IF ~f.exists THEN FALSE ELSE f.suffix \in supported_extensions

validate_file_noexists(f) == lower(f.suffix) \in supported_extensions

validate_file_always(f) == TRUE

\* OCREngine._validate_file
validate_file(f) ==
    IF ~f.exists THEN FALSE ELSE lower(f.suffix) \in supported_extensions

-----------------------------------------------------------------------------
(* Python call outcomes *)

Return(v) == [kind |-> "return", value |-> v]
Raise(e) == [kind |-> "raise", exc |-> e]

NoValue == [none |-> TRUE]

-----------------------------------------------------------------------------
(* Strings as sequences of characters; the OCR texts the backend may yield *)

Str_A_bar_0 == <<"A", "|", " ", "\n", "1", "0">>
Str_total == <<"T", "o", "t", "a", "l", "\t", "5", "0">>
Str_empty == <<>>

\* text (stripped) and confidence of a backend run: the confidence is the
\* mean of the positive per-token confidences / 100.0, or 0.0 without any
OcrReadings ==
    {[text |-> Str_A_bar_0, confidence |-> Rat(8, 10)],
     [text |-> Str_total, confidence |-> Rat(6, 10)],
     [text |-> Str_empty, confidence |-> RatZero]}

-----------------------------------------------------------------------------
(* Text Normalizer: InvoiceParsingPipeline._preprocess_text *)

Whitespace == {" ", "\n", "\t", "\r"}

RECURSIVE lstrip(_)
lstrip(s) ==
    IF s = <<>> THEN s
    ELSE IF Head(s) \in Whitespace THEN lstrip(Tail(s)) ELSE s

RECURSIVE join_words(_)
join_words(s) ==
    IF s = <<>> THEN <<>>
    ELSE IF Head(s) \in Whitespace
         THEN LET r == lstrip(s)
              IN  IF r = <<>> THEN <<>> ELSE <<" ">> \o join_words(r)
         ELSE <<Head(s)>> \o join_words(Tail(s))

\* ' '.join(text.split())
split_join(s) == join_words(lstrip(s))

\* str.replace(old, new) for one-character old and new
replace_char(s, old, new) ==
    [i \in 1..Len(s) |-> IF s[i] = old THEN new ELSE s[i]]

Header == <<"I", "N", "V", "O", "I", "C", "E", " ", "T", "E", "X", "T", ":",
            "\n">>

Footer == <<"\n", "\n", "P", "l", "e", "a", "s", "e", " ", "e", "x", "t",
            "r", "a", "c", "t", " ", "s", "t", "r", "u", "c", "t", "u", "r",
            "e", "d", " ", "d", "a", "t", "a", " ", "f", "r", "o", "m", " ",
            "t", "h", "i", "s", " ", "i", "n", "v", "o", "i", "c", "e", ".">>

preprocess_body_keeps_zero(s) == replace_char(split_join(s), "|", "I")

\* the body between header and footer
preprocess_body(s) ==
    replace_char(replace_char(split_join(s), "|", "I"), "0", "O")

\* InvoiceParsingPipeline._preprocess_text
preprocess_text(s) == Header \o preprocess_body(s) \o Footer

-----------------------------------------------------------------------------
(* Python values in the parsed JSON: every value is a record with a type tag *)

JNull == [t |-> "null"]
JStr(s) == [t |-> "str", s |-> s]
JNum(cents) == [t |-> "num", v |-> cents]
JList(elems) == [t |-> "list", e |-> elems]
JDict(d) == [t |-> "dict", d |-> d]

\* bool(x)
truthy(x) ==
    CASE x.t = "null" -> FALSE
      [] x.t = "str" -> x.s /= <<>>
      [] x.t = "num" -> x.v /= 0
      [] x.t = "list" -> x.e /= <<>>
      [] OTHER -> DOMAIN x.d /= {}

\* key in dict
has(x, key) == key \in DOMAIN x.d

\* dict.get(key, default)
get(x, key, default) == IF has(x, key) THEN x.d[key] ELSE default

\* dict[key] = value
put(x, key, value) ==
    JDict([k \in DOMAIN x.d \cup {key} |->
             IF k = key THEN value ELSE x.d[k]])

Digits == {"0", "1", "2", "3", "4", "5", "6", "7", "8", "9"}

digit_value(c) ==
    CASE c = "0" -> 0 [] c = "1" -> 1 [] c = "2" -> 2 [] c = "3" -> 3
      [] c = "4" -> 4 [] c = "5" -> 5 [] c = "6" -> 6 [] c = "7" -> 7
      [] c = "8" -> 8 [] OTHER -> 9

digit_char(n) ==
    CASE n = 0 -> "0" [] n = 1 -> "1" [] n = 2 -> "2" [] n = 3 -> "3"
      [] n = 4 -> "4" [] n = 5 -> "5" [] n = 6 -> "6" [] n = 7 -> "7"
      [] n = 8 -> "8" [] OTHER -> "9"

RECURSIVE digits_value(_)
digits_value(s) ==
    IF s = <<>> THEN 0
    ELSE digits_value(SubSeq(s, 1, Len(s) - 1)) * 10 + digit_value(s[Len(s)])

RECURSIVE rstrip(_)
rstrip(s) ==
    IF s = <<>> THEN s
    ELSE IF s[Len(s)] \in Whitespace THEN rstrip(SubSeq(s, 1, Len(s) - 1))
    ELSE s

all_digits(s) == \A i \in 1..Len(s) : s[i] \in Digits

\* position of the first "." of s, or 0
dot_index(s) ==
    IF \E i \in 1..Len(s) : s[i] = "."
    THEN CHOOSE i \in 1..Len(s) : s[i] = "." /\ \A j \in 1..(i - 1) : s[j] /= "."
    ELSE 0

\* the two first fractional digits as cents (amounts are kept in cents: the
\* strings of the model carry at most two fractional digits)
frac_cents(f) ==
    IF Len(f) = 0 THEN 0
    ELSE IF Len(f) = 1 THEN digit_value(f[1]) * 10
    ELSE digit_value(f[1]) * 10 + digit_value(f[2])

\* an unsigned decimal literal: digits, digits.digits, digits. or .digits
parse_unsigned(u) ==
    LET k == dot_index(u)
        ip == IF k = 0 THEN u ELSE SubSeq(u, 1, k - 1)
        fp == IF k = 0 THEN <<>> ELSE SubSeq(u, k + 1, Len(u))
    IN  IF all_digits(ip) /\ all_digits(fp) /\ Len(ip) + Len(fp) > 0
        THEN Return(digits_value(ip) * 100 + frac_cents(fp))
        ELSE Raise("ValueError")

\* float(s) for a str s: surrounding whitespace and one sign are accepted
float_of_chars(s) ==
    LET u == rstrip(lstrip(s))
    IN  IF u = <<>> THEN Raise("ValueError")
        ELSE IF Head(u) = "-"
             THEN LET r == parse_unsigned(Tail(u))
                  IN  IF r.kind = "raise" THEN r ELSE Return(0 - r.value)
        ELSE IF Head(u) = "+" THEN parse_unsigned(Tail(u))
        ELSE parse_unsigned(u)

\* float(x)
py_float(x) ==
    CASE x.t = "num" -> Return(x.v)
      [] x.t = "str" -> float_of_chars(x.s)
      [] OTHER -> Raise("TypeError")

\* s.replace('$', '').replace(',', '')
strip_currency(s) == SelectSeq(s, LAMBDA c : c \notin {"$", ","})

RECURSIVE nat_chars(_)
nat_chars(n) ==
    IF n < 10 THEN <<digit_char(n)>>
    ELSE nat_chars(n \div 10) \o <<digit_char(n % 10)>>

\* str(x) of a number: a JSON integer, or a number with a non-zero fraction
num_chars(v) ==
    LET a == IF v < 0 THEN 0 - v ELSE v
        sign == IF v < 0 THEN <<"-">> ELSE <<>>
        f == a % 100
    IN  sign \o nat_chars(a \div 100) \o
        (IF f = 0 THEN <<>>
         ELSE IF f % 10 = 0 THEN <<".", digit_char(f \div 10)>>
         ELSE <<".", digit_char(f \div 10), digit_char(f % 10)>>)

\* str(x), as an f-string formats a value (the repr of a list or a dict is
\* cut to its brackets)
py_str(x) ==
    CASE x.t = "str" -> x.s
      [] x.t = "null" -> <<"N", "o", "n", "e">>
      [] x.t = "num" -> num_chars(x.v)
      [] x.t = "list" -> <<"[", "]">>
      [] OTHER -> <<"{", "}">>

\* float(str(x).replace('$', '').replace(',', ''))
currency_float(x) == float_of_chars(strip_currency(py_str(x)))

-----------------------------------------------------------------------------
(* Structural check of the LLM response *)

required_fields == <<"vendor_name", "invoice_number", "invoice_date", "total">>

item_ok(item) ==
    /\ item.t = "dict"
    /\ has(item, "description")
    /\ has(item, "total")

validate_parsed_data_presence_only(data) ==
    /\ \A i \in 1..Len(required_fields) : has(data, required_fields[i])
    /\ (has(data, "items") /\ data.d["items"].t = "list")
          => \A i \in 1..Len(data.d["items"].e) : item_ok(data.d["items"].e[i])

validate_parsed_data_no_items_check(data) ==
    \A i \in 1..Len(required_fields) :
        has(data, required_fields[i]) /\ truthy(data.d[required_fields[i]])

validate_parsed_data_accepts_all(data) == TRUE

\* InvoiceParsingPipeline._validate_parsed_data
validate_parsed_data(data) ==
    /\ \A i \in 1..Len(required_fields) :
          has(data, required_fields[i]) /\ truthy(data.d[required_fields[i]])
    /\ (has(data, "items") /\ data.d["items"].t = "list")
          => \A i \in 1..Len(data.d["items"].e) : item_ok(data.d["items"].e[i])

\* the confidence of a structured extraction that succeeded
llm_fixed_confidence == Rat(9, 10)

extract_structured_data_graded(o) ==
    IF o.kind = "raise" THEN [success |-> FALSE, error |-> o.exc]
    ELSE IF validate_parsed_data(o.value)
    THEN [success |-> TRUE, data |-> o.value,
          confidence |-> IF has(o.value, "items") THEN Rat(9, 10)
                         ELSE Rat(5, 10)]
    ELSE [success |-> FALSE,
          error |-> "Invalid data structure returned by LLM"]

\* InvoiceParsingPipeline._extract_structured_data, given what
\* llm_client.generate_structured did: returned a dict or raised
extract_structured_data(o) ==
    IF o.kind = "raise" THEN [success |-> FALSE, error |-> o.exc]
    ELSE IF validate_parsed_data(o.value)
    THEN [success |-> TRUE, data |-> o.value,
          confidence |-> llm_fixed_confidence]
    ELSE [success |-> FALSE,
          error |-> "Invalid data structure returned by LLM"]

-----------------------------------------------------------------------------
(* Type Coercion Stage: the dict is mutated in place, field after field;   *)
(* a conversion state is the dict so far and whether an exception is up    *)

\* if key in d and d[key]: d[key] = float(str(d[key]).replace(...))
convert_currency(st, key) ==
    IF st.raised \/ ~has(st.data, key) \/ ~truthy(st.data.d[key]) THEN st
    ELSE LET r == currency_float(st.data.d[key])
         IN  IF r.kind = "raise" THEN [st EXCEPT !.raised = TRUE]
             ELSE [st EXCEPT !.data = put(@, key, JNum(r.value))]

convert_quantity_raising(st) ==
    IF st.raised \/ ~has(st.data, "quantity")
                 \/ ~truthy(st.data.d["quantity"]) THEN st
    ELSE LET r == py_float(st.data.d["quantity"])
         IN  IF r.kind = "raise" THEN [st EXCEPT !.raised = TRUE]
             ELSE [st EXCEPT !.data = put(@, "quantity", JNum(r.value))]

\* the quantity of one item: float(q), or 1.0 when that raises
convert_quantity(st) ==
    IF st.raised \/ ~has(st.data, "quantity")
                 \/ ~truthy(st.data.d["quantity"]) THEN st
    ELSE LET r == py_float(st.data.d["quantity"])
         IN  [st EXCEPT !.data =
                 put(@, "quantity",
                     JNum(IF r.kind = "raise" THEN 100 ELSE r.value))]

\* the body of the loop over items, for one element of the list
convert_item(item) ==
    CASE item.t = "dict" ->
            convert_currency(
                convert_currency(
                    convert_quantity([data |-> item, raised |-> FALSE]),
                    "unit_price"),
                "total")
      [] item.t \in {"null", "num"} -> [data |-> item, raised |-> TRUE]
      [] OTHER -> [data |-> item, raised |-> FALSE]

\* the loop over items from element i on; the loop stops at the first raise
RECURSIVE convert_items(_, _)
convert_items(elems, i) ==
    IF i > Len(elems) THEN [elems |-> elems, raised |-> FALSE]
    ELSE LET c == convert_item(elems[i])
             done == [elems EXCEPT ![i] = c.data]
         IN  IF c.raised THEN [elems |-> done, raised |-> TRUE]
             ELSE convert_items(done, i + 1)

\* the try block of _convert_data_types
convert_state(data) ==
    LET st == convert_currency(
                  convert_currency(
                      convert_currency([data |-> data, raised |-> FALSE],
                                       "total"),
                      "subtotal"),
                  "tax")
    IN  IF st.raised \/ ~has(st.data, "items")
                     \/ st.data.d["items"].t /= "list" THEN st
        ELSE LET c == convert_items(st.data.d["items"].e, 1)
             IN  [data |-> put(st.data, "items", JList(c.elems)),
                  raised |-> c.raised]

convert_data_types_uncaught(data) ==
    LET st == convert_state(data)
    IN  IF st.raised THEN Raise("ValueError") ELSE Return(st.data)

\* InvoiceParsingPipeline._convert_data_types: both the try block and the
\* handler return the (mutated) dict
convert_data_types(data) == Return(convert_state(data).data)

-----------------------------------------------------------------------------
(* Validation Chain: alerts *)

Alert(type, severity, about) ==
    [type |-> type, severity |-> severity, about |-> about]

Unknown == JStr(<<"U", "n", "k", "n", "o", "w", "n">>)
UnknownItem == JStr(<<"U", "n", "k", "n", "o", "w", "n", " ", "I", "t", "e",
                      "m">>)

\* PriceValidator.__init__: threshold = 0.05
price_threshold == Rat(5, 100)

\* severity 'medium' if price_change < 0.2 else 'high'
severity_bound == Rat(2, 10)

\* the key of PriceValidator.update_price_history:
\* f"{vendor_name}:{item_description}"
price_key(vendor_name, description) ==
    py_str(vendor_name) \o <<":">> \o py_str(description)

\* PriceValidator.update_price_history: price_history[key] = the price (and
\* the time of the update, which nothing reads and is left out)
update_price_history(history, vendor_name, description, price) ==
    {e \in history : e.key /= price_key(vendor_name, description)}
    \cup {[key |-> price_key(vendor_name, description), price |-> price]}

get_historical_price_recorded(history, vendor_name, description) ==
    IF \E e \in history : e.key = price_key(vendor_name, description)
    THEN JNum((CHOOSE e \in history :
                  e.key = price_key(vendor_name, description)).price)
    ELSE JNull

\* PriceValidator._get_historical_price: a placeholder, always None
get_historical_price(history, vendor_name, description) == JNull

\* |new - old| / old for old > 0
price_change(new, old) ==
    Rat(IF new >= old THEN new - old ELSE old - new, old)

discrepancy_alerts_medium_at_bound(description, unit_price, old) ==
    IF old <= 0 THEN <<>>
    ELSE LET ch == price_change(unit_price, old)
         IN  IF RatLeq(ch, price_threshold) THEN <<>>
             ELSE <<Alert("price_discrepancy",
                          IF RatLeq(ch, severity_bound) THEN "medium"
                          ELSE "high",
                          description)>>

\* the price_discrepancy part of _validate_item_price, for numbers
discrepancy_alerts(description, unit_price, old) ==
    IF old <= 0 THEN <<>>
    ELSE LET ch == price_change(unit_price, old)
         IN  IF RatLeq(ch, price_threshold) THEN <<>>
             ELSE <<Alert("price_discrepancy",
                          IF ~RatLeq(severity_bound, ch) THEN "medium"
                          ELSE "high",
                          description)>>

\* PriceValidator._validate_item_price: an exception inside (item.get on a
\* non-dict, arithmetic or comparison on a non-number) is logged and the
\* alerts collected so far are returned
validate_item_price_given_unusual_without_alert(item, old) ==
    LET description == get(item, "description", UnknownItem)
        unit_price == get(item, "unit_price", JNull)
        d == IF truthy(old)
             THEN discrepancy_alerts(description, unit_price.v, old.v)
             ELSE <<>>
    IN  IF ~truthy(unit_price) THEN <<>>
        ELSE IF unit_price.t /= "num" THEN <<>>
        ELSE IF d /= <<>> THEN d
        ELSE IF unit_price.v > 100 * 100
        THEN <<Alert("unusual_price", "low", description)>>
        ELSE <<>>

validate_item_price_given(item, old) ==
    LET description == get(item, "description", UnknownItem)
        unit_price == get(item, "unit_price", JNull)
    IN  IF ~truthy(unit_price) THEN <<>>
        ELSE IF unit_price.t /= "num" THEN <<>>
        ELSE (IF truthy(old)
              THEN discrepancy_alerts(description, unit_price.v, old.v)
              ELSE <<>>)
             \o (IF unit_price.v > 100 * 100
                 THEN <<Alert("unusual_price", "low", description)>>
                 ELSE <<>>)

\* _validate_item_price with the lookup it awaits
validate_item_price(vendor_name, item, history) ==
    IF item.t /= "dict" THEN <<>>
    ELSE validate_item_price_given(item,
             get_historical_price(history, vendor_name,
                                  get(item, "description", UnknownItem)))

\* PriceValidator._validate_total_amount: subtotal + tax and total - that sum
\* raise unless all three are numbers (str + str concatenates, and the
\* subtraction then raises); the handler returns the alerts so far: none
validate_total_amount(data) ==
    LET total == get(data, "total", JNull)
        subtotal == get(data, "subtotal", JNum(0))
        tax == get(data, "tax", JNum(0))
    IN  IF ~truthy(total) THEN <<>>
        ELSE IF total.t /= "num" \/ subtotal.t /= "num" \/ tax.t /= "num"
        THEN <<>>
        ELSE LET calculated == subtotal.v + tax.v
                 diff == IF total.v >= calculated THEN total.v - calculated
                         ELSE calculated - total.v
             IN  (IF diff > 1
                  THEN <<Alert("total_mismatch", "medium", JNull)>>
                  ELSE <<>>)
                 \o (IF total.v > 10000 * 100
                     THEN <<Alert("high_total", "low", JNull)>>
                     ELSE <<>>)

RECURSIVE item_alerts(_, _, _, _)
item_alerts(vendor_name, elems, i, history) ==
    IF i > Len(elems) THEN <<>>
    ELSE validate_item_price(vendor_name, elems[i], history)
            \o item_alerts(vendor_name, elems, i + 1, history)

\* what `for item in items` iterates over: the elements of a list; a str or
\* a dict yields str elements, on which item.get raises inside
\* _validate_item_price: no alert
iterable(items) == items.t \in {"list", "str", "dict"}

price_validate_uncaught(data, history) ==
    LET vendor_name == get(data, "vendor_name", Unknown)
        items == get(data, "items", JList(<<>>))
    IN  IF ~iterable(items)
        THEN Raise("TypeError")
        ELSE Return((IF items.t = "list"
                     THEN item_alerts(vendor_name, items.e, 1, history)
                     ELSE <<>>)
                    \o validate_total_amount(data))

price_validate_total_first(data, history) ==
    LET vendor_name == get(data, "vendor_name", Unknown)
        items == get(data, "items", JList(<<>>))
    IN  IF ~iterable(items)
        THEN Return(<<Alert("price_validation_error", "high", JNull)>>)
        ELSE Return(validate_total_amount(data)
                    \o (IF items.t = "list"
                        THEN item_alerts(vendor_name, items.e, 1, history)
                        ELSE <<>>))

\* PriceValidator.validate: an exception of the body (`for item in items`
\* over None or a number) is caught and returned as the only alert
price_validate(data, history) ==
    LET vendor_name == get(data, "vendor_name", Unknown)
        items == get(data, "items", JList(<<>>))
    IN  IF ~iterable(items)
        THEN Return(<<Alert("price_validation_error", "high", JNull)>>)
        ELSE Return((IF items.t = "list"
                     THEN item_alerts(vendor_name, items.e, 1, history)
                     ELSE <<>>)
                    \o validate_total_amount(data))

\* the key of DuplicateValidator._is_duplicate_invoice_number and
\* _add_processed_invoice: f"{vendor_name}:{invoice_number}"
invoice_key(invoice_number, vendor_name) ==
    py_str(vendor_name) \o <<":">> \o py_str(invoice_number)

\* DuplicateValidator._find_similar_invoices: a placeholder, always empty
find_similar_invoices(vendor_name, invoice_date, total) == <<>>

is_duplicate_invoice_number_never(processed, invoice_number, vendor_name) ==
    FALSE

\* DuplicateValidator._is_duplicate_invoice_number: key in the set
is_duplicate_invoice_number(processed, invoice_number, vendor_name) ==
    invoice_key(invoice_number, vendor_name) \in processed

add_processed_invoice_skipped(processed, invoice_number, vendor_name) ==
    processed

\* DuplicateValidator._add_processed_invoice: the set with the key added
add_processed_invoice(processed, invoice_number, vendor_name) ==
    processed \cup {invoice_key(invoice_number, vendor_name)}

clear_cache_keeps(processed) == processed

\* DuplicateValidator.clear_cache: the set after processed_invoices.clear()
clear_cache(processed) == {}

missing_invoice_number_when_absent(data) == ~has(data, "invoice_number")

\* `if not invoice_number` for invoice_number = parsed_data.get(...)
missing_invoice_number(data) == ~truthy(get(data, "invoice_number", JNull))

\* the callers of a DuplicateValidator used on its own, and their frames
Callers == {1, 2}

NoCall == [pc |-> "idle"]

NoCalls == [c \in Callers |-> NoCall]

\* DuplicateValidator.validate: the alerts and the new processed_invoices
duplicate_validate(data, processed) ==
    LET invoice_number == get(data, "invoice_number", JNull)
        vendor_name == get(data, "vendor_name", Unknown)
    IN  IF missing_invoice_number(data)
        THEN [out |-> Return(<<Alert("missing_invoice_number", "high",
                                     JNull)>>),
              processed |-> processed]
        ELSE [out |-> Return(
                  (IF is_duplicate_invoice_number(processed, invoice_number,
                                                  vendor_name)
                   THEN <<Alert("duplicate_invoice_number", "high",
                                invoice_number)>>
                   ELSE <<>>)
                  \o (IF find_similar_invoices(vendor_name,
                            get(data, "invoice_date", JNull),
                            get(data, "total", JNull)) /= <<>>
                      THEN <<Alert("similar_invoice", "medium", JNull)>>
                      ELSE <<>>)),
              processed |-> add_processed_invoice(processed, invoice_number,
                                                  vendor_name)]

\* the handler of InvoiceParsingPipeline._validate_data
validation_error_alert == Alert("validation_error", "high", JNull)

-----------------------------------------------------------------------------
(* LLM client factory *)

None == "<None>"

ProviderNames == {"ollama", "gemini", "deepseek", "llama", "openai",
                  "anthropic", "huggingface", "mistral", ""}

\* the part of the process environment the constructors read: the
\* LLM_PROVIDER variable (or None), settings.LLM_PROVIDER, and whether each
\* API key is set to a non-empty value
Environments ==
    [LLM_PROVIDER : ProviderNames \cup {None},
     settings_LLM_PROVIDER : ProviderNames,
     GEMINI_API_KEY : BOOLEAN, OPENAI_API_KEY : BOOLEAN,
     ANTHROPIC_API_KEY : BOOLEAN]

\* `not provider` for a str or None
falsy_name(p) == p = None \/ p = ""

\* create_client: `if not provider: provider = os.getenv('LLM_PROVIDER',
\* 'ollama')`
resolve_provider(provider, env) ==
    IF falsy_name(provider)
    THEN (IF env.LLM_PROVIDER = None THEN "ollama" ELSE env.LLM_PROVIDER)
    ELSE provider

\* whether the API key the client of provider p reads is set
api_key_set(p, env) ==
    CASE p = "gemini" -> env.GEMINI_API_KEY
      [] p = "openai" -> env.OPENAI_API_KEY
      [] p = "anthropic" -> env.ANTHROPIC_API_KEY
      [] OTHER -> FALSE

create_client_defaulting(provider, model, env) ==
    LET p == resolve_provider(provider, env)
    IN  CASE p \in {"ollama", "deepseek", "llama"} -> Return("OllamaClient")
          [] p = "gemini" -> Return("GeminiClient")
          [] p = "openai" -> Return("OpenAIClient")
          [] p = "anthropic" -> Return("AnthropicClient")
          [] p = "huggingface" -> Return("HuggingFaceClient")
          [] OTHER -> Return("OllamaClient")

\* LLMFactory.create_client, with the constructors it calls: GeminiClient
\* raises without an API key; OpenAIClient and AnthropicClient delegate to
\* Ollama without an API key and raise NotImplementedError with one
create_client(provider, model, env) ==
    LET p == resolve_provider(provider, env)
    IN  CASE p \in {"ollama", "deepseek", "llama"} -> Return("OllamaClient")
          [] p = "gemini" ->
                IF api_key_set(p, env) THEN Return("GeminiClient")
                ELSE Raise("ValueError: Gemini API key is required")
          [] p = "openai" ->
                IF api_key_set(p, env)
                THEN Raise("NotImplementedError: OpenAI client")
                ELSE Return("OpenAIClient")
          [] p = "anthropic" ->
                IF api_key_set(p, env)
                THEN Raise("NotImplementedError: Anthropic client")
                ELSE Return("AnthropicClient")
          [] p = "huggingface" -> Return("HuggingFaceClient")
          [] OTHER -> Raise("ValueError: Unsupported LLM provider")

\* InvoiceParsingPipeline.__init__: the provider handed to the factory
pipeline_provider(llm_provider, env) ==
    IF ~falsy_name(llm_provider) THEN llm_provider
    ELSE env.settings_LLM_PROVIDER

\* InvoiceParsingPipeline.__init__, the choice of the LLM client
pipeline_llm_client(llm_provider, llm_model, env) ==
    create_client(pipeline_provider(llm_provider, env), llm_model, env)

-----------------------------------------------------------------------------
(* Extraction adapters *)

\* What the Tesseract backend does with one file when it is asked: text and
\* confidence, an error caught inside the adapter, or an exception that
\* leaves the adapter.
BackendOutcomes ==
    {[kind |-> "ok", text |-> r.text, confidence |-> r.confidence] :
        r \in OcrReadings}
    \cup {[kind |-> "fail"], [kind |-> "raise"]}

tesseract_extract_text_ignores_availability(available, o) ==
    CASE o.kind = "ok" ->
            Return([success |-> TRUE, text |-> o.text,
                    confidence |-> o.confidence, engine |-> "tesseract"])
      [] o.kind = "fail" ->
            Return([success |-> FALSE, error |-> "backend error"])
      [] OTHER -> Raise("backend exception")

\* TesseractEngine.extract_text
tesseract_extract_text(available, o) ==
    IF ~available
    THEN Return([success |-> FALSE, error |-> "Tesseract not available"])
    ELSE CASE o.kind = "ok" ->
                 Return([success |-> TRUE, text |-> o.text,
                         confidence |-> o.confidence, engine |-> "tesseract"])
           [] o.kind = "fail" ->
                 Return([success |-> FALSE, error |-> "backend error"])
           [] OTHER -> Raise("backend exception")

easyocr_extract_text_succeeds ==
    Return([success |-> TRUE, text |-> <<"A">>, confidence |-> RatZero,
            engine |-> "easyocr"])

\* EasyOCREngine.extract_text: a placeholder that always fails
easyocr_extract_text ==
    Return([success |-> FALSE, error |-> "EasyOCR not implemented yet"])

EngineNames == {"tesseract", "easyocr", "paddle"}

\* whether an adapter asked to extract reaches its backend: Tesseract past
\* its availability test, EasyOCR (a placeholder) never
touches_backend(engine_name, available) ==
    engine_name = "tesseract" /\ available

\* the adapter OCREngine._extract_with_engine invokes for a name, if any
adapter_of(engine_name) ==
    IF engine_name \in {"tesseract", "easyocr"} THEN <<engine_name>> ELSE <<>>

extract_with_engine_uncaught(engine_name, available, o) ==
    LET r == IF engine_name = "tesseract"
             THEN tesseract_extract_text(available, o)
             ELSE IF engine_name = "easyocr"
             THEN easyocr_extract_text
             ELSE Return([success |-> FALSE, error |-> "Unknown OCR engine"])
    IN  IF r.kind = "raise" THEN [raised |-> r.exc] ELSE r.value

\* OCREngine._extract_with_engine
extract_with_engine(engine_name, available, o) ==
    LET r == IF engine_name = "tesseract"
             THEN tesseract_extract_text(available, o)
             ELSE IF engine_name = "easyocr"
             THEN easyocr_extract_text
             ELSE Return([success |-> FALSE, error |-> "Unknown OCR engine"])
    IN  IF r.kind = "raise"
        THEN [success |-> FALSE, error |-> "engine extraction failed"]
        ELSE r.value

-----------------------------------------------------------------------------
(* Extraction Manager: OCREngine *)

InitStats == [total_processed |-> 0, successful_extractions |-> 0,
              failed_extractions |-> 0, average_confidence |-> RatZero]

\* result.get('confidence', 0.0)
get_confidence(r) == IF "confidence" \in DOMAIN r THEN r.confidence ELSE RatZero

update_stats_per_attempt(s, r, attempts) ==
    LET t == [s EXCEPT !.total_processed = @ + 1]
    IN  IF r.success
        THEN LET n == t.successful_extractions + 1
             IN  [t EXCEPT !.successful_extractions = n,
                           !.average_confidence =
                               RatDivInt(RatAdd(RatMulInt(@, n - 1),
                                                get_confidence(r)), n)]
        ELSE [t EXCEPT !.failed_extractions = @ + attempts]

update_stats_mean_over_all(s, r, attempts) ==
    LET t == [s EXCEPT !.total_processed = @ + 1]
    IN  IF r.success
        THEN [t EXCEPT !.successful_extractions = @ + 1,
                       !.average_confidence =
                           RatDivInt(RatAdd(RatMulInt(@, t.total_processed - 1),
                                            get_confidence(r)),
                                     t.total_processed)]
        ELSE [t EXCEPT !.failed_extractions = @ + 1]

\* OCREngine._update_stats; attempts is the number of adapters tried, which
\* the source does not look at
update_stats(s, r, attempts) ==
    LET t == [s EXCEPT !.total_processed = @ + 1]
    IN  IF r.success
        THEN LET n == t.successful_extractions + 1
             IN  [t EXCEPT !.successful_extractions = n,
                           !.average_confidence =
                               RatDivInt(RatAdd(RatMulInt(@, n - 1),
                                                get_confidence(r)), n)]
        ELSE [t EXCEPT !.failed_extractions = @ + 1]

get_stats_rate_of_successes(primary, s) ==
    [primary_engine |-> primary,
     total_processed |-> s.total_processed,
     successful_extractions |-> s.successful_extractions,
     failed_extractions |-> s.failed_extractions,
     success_rate |-> [n |-> s.total_processed,
                       d |-> IF s.successful_extractions > 1
                             THEN s.successful_extractions ELSE 1],
     average_confidence |-> s.average_confidence]

\* OCREngine.get_stats: success_rate is
\* successful_extractions / max(total_processed, 1), kept as the pair of the
\* two integers
get_stats(primary, s) ==
    [primary_engine |-> primary,
     total_processed |-> s.total_processed,
     successful_extractions |-> s.successful_extractions,
     failed_extractions |-> s.failed_extractions,
     success_rate |-> [n |-> s.successful_extractions,
                       d |-> IF s.total_processed > 1
                             THEN s.total_processed ELSE 1],
     average_confidence |-> s.average_confidence]

needs_fallback_always(r, primary) == ~r.success

needs_fallback_whenever(r, primary) == primary /= "easyocr"

needs_fallback_never(r, primary) == FALSE

\* OCREngine.extract_text, the test before the fallback
needs_fallback(r, primary) == ~r.success /\ primary /= "easyocr"

InvalidFileResult ==
    [success |-> FALSE, error |-> "Invalid file format or file not found"]

extract_text_except_reraise(e) == [raised |-> e]

\* OCREngine.extract_text: the handler of its try block
extract_text_except(e) == [success |-> FALSE, error |-> e]

\* InvoiceParsingPipeline._extract_text: the dict of the engine as it is, or
\* a failure dict for an exception out of the engine
pipeline_extract_text(v) ==
    IF "raised" \in DOMAIN v THEN [success |-> FALSE, error |-> v.raised]
    ELSE v

\* the end of an extract_text call with v, a result dict or an exception
\* ([raised |-> e]): to the caller of the stand-alone engine, or back into
\* parse_invoice through _extract_text; the frame of the call is dropped
ExtractTextReturn(v) ==
    IF et.caller = "direct"
    THEN IF "raised" \in DOMAIN v
         THEN /\ pc' = "raised"
              /\ escaped' = TRUE
              /\ UNCHANGED <<result, run>>
         ELSE /\ pc' = "idle"
              /\ result' = v
              /\ UNCHANGED <<run, escaped>>
    ELSE /\ pc' = "ocr_returned"
         /\ run' = [run EXCEPT !.ocr_result = pipeline_extract_text(v)]
         /\ UNCHANGED <<result, escaped>>

\* extract_text up to its first adapter call: _validate_file, _preprocess_image
ExtractTextBegin ==
    /\ pc = "et_begin"
    /\ IF validate_file_raises(file_path)
       THEN /\ ExtractTextReturn(extract_text_except("TypeError"))
            /\ et' = [et EXCEPT !.result = extract_text_except("TypeError")]
            /\ hist' = [hist EXCEPT !.caught = TRUE]
       ELSE IF ~validate_file(file_path)
       THEN /\ ExtractTextReturn(InvalidFileResult)
            /\ et' = [et EXCEPT !.result = InvalidFileResult]
            /\ hist' = [hist EXCEPT !.rejected = TRUE]
       ELSE /\ pc' = "et_primary"
            /\ et' = [et EXCEPT !.processed_path = file_path]
            /\ UNCHANGED <<result, run, hist, escaped>>
    /\ UNCHANGED <<engineVars, stats, llm_client, validatorVars, file_path>>

\* extract_text: the primary engine
ExtractTextPrimary ==
    /\ pc = "et_primary"
    /\ \E o \in BackendOutcomes :
         LET r == extract_with_engine(primary_engine, tesseract_available, o)
         IN  /\ et' = [et EXCEPT !.result = r, !.attempts = @ + 1]
             /\ IF "raised" \in DOMAIN r
                THEN /\ ExtractTextReturn(extract_text_except(r.raised))
                     /\ hist' = [hist EXCEPT
                                   !.calls = @ \o adapter_of(primary_engine),
                                   !.backend_calls =
                                       IF touches_backend(primary_engine,
                                                          tesseract_available)
                                       THEN @ + 1 ELSE @,
                                   !.primary_result = r,
                                   !.caught = TRUE]
                ELSE /\ pc' = IF needs_fallback(r, primary_engine)
                              THEN "et_fallback" ELSE "et_finish"
                     /\ hist' = [hist EXCEPT
                                   !.calls = @ \o adapter_of(primary_engine),
                                   !.backend_calls =
                                       IF touches_backend(primary_engine,
                                                          tesseract_available)
                                       THEN @ + 1 ELSE @,
                                   !.primary_result = r]
                     /\ UNCHANGED <<run, result, escaped>>
    /\ UNCHANGED <<engineVars, stats, llm_client, validatorVars, file_path>>

\* extract_text: the EasyOCR fallback
ExtractTextFallback ==
    /\ pc = "et_fallback"
    /\ \E o \in BackendOutcomes :
         LET r == extract_with_engine("easyocr", tesseract_available, o)
         IN  /\ et' = [et EXCEPT !.result = r, !.attempts = @ + 1]
             /\ IF "raised" \in DOMAIN r
                THEN /\ ExtractTextReturn(extract_text_except(r.raised))
                     /\ hist' = [hist EXCEPT
                                   !.calls = @ \o adapter_of("easyocr"),
                                   !.backend_calls =
                                       IF touches_backend("easyocr",
                                                          tesseract_available)
                                       THEN @ + 1 ELSE @,
                                   !.fallback_result = r,
                                   !.caught = TRUE]
                ELSE /\ pc' = "et_finish"
                     /\ hist' = [hist EXCEPT
                                   !.calls = @ \o adapter_of("easyocr"),
                                   !.backend_calls =
                                       IF touches_backend("easyocr",
                                                          tesseract_available)
                                       THEN @ + 1 ELSE @,
                                   !.fallback_result = r]
                     /\ UNCHANGED <<run, result, escaped>>
    /\ UNCHANGED <<engineVars, stats, llm_client, validatorVars, file_path>>

\* extract_text: _update_stats, cleanup (processed_path = file_path: nothing
\* is removed) and return
ExtractTextFinish ==
    /\ pc = "et_finish"
    /\ stats' = update_stats(stats, et.result, et.attempts)
    /\ ExtractTextReturn(et.result)
    /\ et' = [et EXCEPT !.processed_path = NoValue]
    /\ hist' = [hist EXCEPT !.confs =
                    IF et.result.success
                    THEN Append(@, get_confidence(et.result)) ELSE @]
    /\ UNCHANGED <<engineVars, llm_client, validatorVars, file_path>>

InitEt == [caller |-> "direct", result |-> NoValue, processed_path |-> NoValue,
           attempts |-> 0]

\* the observation log: what the running (or last) call did
InitHist ==
    [ctor |-> NoValue,             \* what the constructor was given
     ncalls |-> 0,                 \* calls made so far on this instance
     confs |-> <<>>,               \* confidences of the successes so far
     stats0 |-> InitStats,         \* stats when the call began
     processed0 |-> {},            \* processed_invoices when the call began
     rejected |-> FALSE,           \* _validate_file returned False
     caught |-> FALSE,             \* extract_text's except clause ran
     calls |-> <<>>,               \* adapters invoked, in order
     backend_calls |-> 0,          \* adapters that went on to their backend
     primary_result |-> NoValue,   \* what the primary engine gave
     fallback_result |-> NoValue,  \* what the fallback engine gave
     stages |-> <<>>,              \* pipeline stages entered, in order
     llm_calls |-> 0,              \* generate_structured calls
     response |-> NoValue,         \* what generate did: a text, or it raised
     parses |-> 0,                 \* json.loads calls of generate_structured
     ocr_result |-> NoValue,       \* what _extract_text returned
     llm_outcome |-> NoValue,      \* what generate_structured did
     llm_result |-> NoValue,       \* what _extract_structured_data returned
     validators |-> <<>>,          \* validators run, in order
     coerce_in |-> NoValue,        \* the dict _convert_data_types was given
     coerce_out |-> NoValue,       \* the dict as _convert_data_types left it
     coerce_raised |-> FALSE,      \* its except clause ran
     item |-> NoValue,             \* the item _validate_item_price was given
     historical_price |-> NoValue, \* what its price lookup returned
     record |-> NoValue,           \* the dict a validator's validate was given
     submitted |-> {},             \* keys recorded so far in this process
     submitted0 |-> {},            \* the same when the call began
     events |-> <<>>,              \* reads and writes of the seen keys
     reported |-> NoValue,         \* what get_stats last returned
     history0 |-> {},              \* price_history when the call began
     resets |-> 0]                 \* clear_cache calls and new validators

NewCallHist ==
    [InitHist EXCEPT !.ctor = hist.ctor, !.ncalls = hist.ncalls + 1,
                     !.confs = hist.confs,
                     !.submitted = hist.submitted,
                     !.submitted0 = hist.submitted,
                     !.stats0 = stats, !.processed0 = processed_invoices,
                     !.history0 = price_history]

InitRun == [ocr_result |-> NoValue, raw_text |-> NoValue,
            ocr_confidence |-> NoValue, processed_text |-> NoValue,
            parsed_data |-> NoValue, llm_confidence |-> NoValue,
            alerts |-> <<>>]

-----------------------------------------------------------------------------
(* A stand-alone OCREngine(primary_engine) and its callers *)

InitOCR ==
    /\ pc = "idle"
    /\ primary_engine \in EngineNames
    /\ tesseract_available \in BOOLEAN
    /\ stats = InitStats
    /\ llm_client = None
    /\ processed_invoices = {}
    /\ price_history = {}
    /\ validating = NoCalls
    /\ file_path = NoValue
    /\ et = InitEt
    /\ run = InitRun
    /\ result = NoValue
    /\ escaped = FALSE
    /\ hist = InitHist

\* a caller awaits extract_text(f)
CallExtractText ==
    /\ pc = "idle"
    /\ hist.ncalls < MaxCalls
    /\ \E f \in Arguments : file_path' = f
    /\ hist' = NewCallHist
    /\ pc' = "et_begin"
    /\ et' = InitEt
    /\ result' = NoValue
    /\ UNCHANGED <<engineVars, stats, llm_client, validatorVars, run,
                   escaped>>

\* a caller reads get_stats(), between calls or while one is suspended
GetStats ==
    /\ hist' = [hist EXCEPT !.reported = get_stats(primary_engine, stats)]
    /\ UNCHANGED <<engineVars, stats, llm_client, validatorVars, file_path,
                   pc, et, run, result, escaped>>

NextOCR ==
    \/ CallExtractText
    \/ GetStats
    \/ ExtractTextBegin
    \/ ExtractTextPrimary
    \/ ExtractTextFallback
    \/ ExtractTextFinish

SpecOCR == InitOCR /\ [][NextOCR]_vars

-----------------------------------------------------------------------------
(* What the LLM backend may answer *)

Chars(s) == JStr(s)

GoodItem ==
    JDict([description |-> JStr(<<"x">>),
           quantity |-> JStr(<<"2">>),
           unit_price |-> JStr(<<"$", "1", ".", "5", "0">>),
           total |-> JStr(<<"3", ".", "0", "0">>)])

\* an item as the LLM is asked to give it: numbers, not strings
PricedItem(description, cents) ==
    JDict([description |-> JStr(<<description>>), quantity |-> JNum(100),
           unit_price |-> JNum(cents), total |-> JNum(cents)])

GoodInvoice ==
    JDict([vendor_name |-> JStr(<<"A">>),
           invoice_number |-> JStr(<<"7">>),
           invoice_date |-> JStr(<<"2", "0", "2", "4", "-", "0", "1", "-",
                                   "1", "5">>),
           due_date |-> JNull,
           items |-> JList(<<GoodItem>>),
           subtotal |-> JStr(<<"3", ".", "0", "0">>),
           tax |-> JNum(0),
           total |-> JStr(<<"$", "3", ".", "0", "0">>)])

\* del d[key]
without(x, key) == JDict([k \in DOMAIN x.d \ {key} |-> x.d[k]])

with_item(item) == put(GoodInvoice, "items", JList(<<item>>))

EmptyValues == {JNull, JStr(<<>>), JNum(0), JList(<<>>)}

\* responses the structural check rejects
IncompleteResponses ==
    {without(GoodInvoice, required_fields[i]) : i \in 1..Len(required_fields)}
    \cup {put(GoodInvoice, required_fields[i], e) :
            i \in 1..Len(required_fields), e \in EmptyValues}
    \cup {with_item(JStr(<<"x">>)), with_item(JNull),
          with_item(without(GoodItem, "description")),
          with_item(without(GoodItem, "total")),
          put(GoodInvoice, "items", JList(<<GoodItem, JNum(100)>>)),
          JDict(<<>>)}

\* responses the structural check accepts
CompleteResponses ==
    {GoodInvoice,
     put(GoodInvoice, "invoice_number", JStr(<<"8">>)),
     put(GoodInvoice, "total", JNum(1200000)),
     put(GoodInvoice, "total", JStr(<<"I">>)),
     put(GoodInvoice, "total", JStr(<<"$", "0", ".", "0", "0">>)),
     put(GoodInvoice, "subtotal", JNull),
     put(GoodInvoice, "tax", JStr(<<"O", ".", "3">>)),
     without(GoodInvoice, "items"),
     put(GoodInvoice, "items", JNull),
     put(GoodInvoice, "items", JStr(<<"x">>)),
     put(GoodInvoice, "items", JList(<<>>)),
     with_item(put(GoodItem, "quantity", JStr(<<"I">>))),
     with_item(put(GoodItem, "unit_price", JStr(<<"1", "5", "O">>))),
     with_item(put(GoodItem, "unit_price", JNum(15000))),
     with_item(put(GoodItem, "total", JNull)),
     put(GoodInvoice, "items",
         JList(<<GoodItem, put(GoodItem, "total", JStr(<<"x">>))>>)),
     put(put(GoodInvoice, "total", JNum(1200000)), "items",
         JList(<<PricedItem("b", 12000), PricedItem("a", 150),
                 PricedItem("c", 10001)>>))}

LlmResponses == IncompleteResponses \cup CompleteResponses

\* what llm_client.generate_structured does: it returns the dict it parsed,
\* or raises (transport error, no JSON found, JSON that does not parse)
LlmOutcomes ==
    {Return(r) : r \in LlmResponses}
    \cup {Raise("Ollama API error"), Raise("No JSON found in response"),
          Raise("Failed to parse JSON response")}

-----------------------------------------------------------------------------
(* Pipeline Orchestrator: InvoiceParsingPipeline *)

ocr_failed_never(r) == FALSE

\* parse_invoice: `if not ocr_result['success']`
ocr_failed(r) == ~r.success

llm_failed_never(r) == FALSE

\* parse_invoice: `if not llm_result['success']`
llm_failed(r) == ~r.success

\* r.get('error')
get_error(r) == IF "error" \in DOMAIN r THEN r.error ELSE None

ocr_failure_result_renamed(r) ==
    [success |-> FALSE, error |-> "Pipeline processing failed",
     details |-> get_error(r)]

\* parse_invoice: the return after a failed OCR stage
ocr_failure_result(r) ==
    [success |-> FALSE, error |-> "OCR extraction failed",
     details |-> get_error(r)]

\* parse_invoice: the return after a failed structured extraction
llm_failure_result(r) ==
    [success |-> FALSE, error |-> "LLM extraction failed",
     details |-> get_error(r)]

\* parse_invoice: the handler of its try block
pipeline_failure_result(e) ==
    [success |-> FALSE, error |-> "Pipeline processing failed",
     details |-> e]

overall_confidence_ocr_only(ocr_confidence, llm_confidence) == ocr_confidence

overall_confidence_sum(ocr_confidence, llm_confidence) ==
    RatAdd(ocr_confidence, llm_confidence)

\* parse_invoice: (ocr_confidence + llm_confidence) / 2
overall_confidence(ocr_confidence, llm_confidence) ==
    RatDivInt(RatAdd(ocr_confidence, llm_confidence), 2)

success_result_fails_on_alerts(r) ==
    IF \E i \in 1..Len(r.alerts) : r.alerts[i].severity = "high"
    THEN [success |-> FALSE, error |-> "Validation failed",
          details |-> r.alerts]
    ELSE [success |-> TRUE,
          raw_text |-> r.raw_text,
          parsed_data |-> r.parsed_data,
          confidence_score |-> overall_confidence(r.ocr_confidence,
                                                  r.llm_confidence),
          ocr_confidence |-> r.ocr_confidence,
          llm_confidence |-> r.llm_confidence,
          validation_alerts |-> r.alerts]

\* parse_invoice: the result of a run that reached the end
success_result(r) ==
    [success |-> TRUE,
     raw_text |-> r.raw_text,
     parsed_data |-> r.parsed_data,
     confidence_score |-> overall_confidence(r.ocr_confidence,
                                             r.llm_confidence),
     ocr_confidence |-> r.ocr_confidence,
     llm_confidence |-> r.llm_confidence,
     validation_alerts |-> r.alerts]

\* a return statement of parse_invoice; the frame of the call is dropped
ParseInvoiceReturn(v) ==
    /\ pc' = "idle"
    /\ result' = v
    /\ run' = InitRun

\* the state before the caller builds the pipeline: whether the tesseract
\* binary is installed is a fact of the host
Init ==
    /\ pc = "new"
    /\ primary_engine = None
    /\ tesseract_available \in BOOLEAN
    /\ stats = InitStats
    /\ llm_client = None
    /\ processed_invoices = {}
    /\ price_history = {}
    /\ validating = NoCalls
    /\ file_path = NoValue
    /\ et = InitEt
    /\ run = InitRun
    /\ result = NoValue
    /\ escaped = FALSE
    /\ hist = InitHist

\* InvoiceParsingPipeline(llm_provider, llm_model): OCREngine() with its
\* default primary engine, the LLM client, the two validators
Construct ==
    /\ pc = "new"
    /\ \E llm_provider \in ProviderNames \cup {None},
          llm_model \in {None, "m"}, env \in Environments :
         LET c == pipeline_llm_client(llm_provider, llm_model, env)
             p == resolve_provider(pipeline_provider(llm_provider, env), env)
         IN  /\ hist' = [hist EXCEPT !.ctor =
                             [provider |-> p, api_key |-> api_key_set(p, env)]]
             /\ IF c.kind = "raise"
                THEN /\ pc' = "raised"
                     /\ escaped' = TRUE
                     /\ UNCHANGED <<primary_engine, llm_client>>
                ELSE /\ pc' = "idle"
                     /\ primary_engine' = "tesseract"
                     /\ llm_client' = c.value
                     /\ UNCHANGED escaped
    /\ UNCHANGED <<tesseract_available, stats, validatorVars, file_path, et,
                   run, result>>

\* the caller awaits parse_invoice(f); stage OCR begins: _extract_text
\* awaits ocr_engine.extract_text(f)
ParseInvoice ==
    /\ pc = "idle"
    /\ hist.ncalls < MaxRuns
    /\ \E f \in Arguments : file_path' = f
    /\ hist' = [NewCallHist EXCEPT !.stages = <<"OCR">>]
    /\ pc' = "et_begin"
    /\ et' = [InitEt EXCEPT !.caller = "pipeline"]
    /\ run' = InitRun
    /\ result' = NoValue
    /\ UNCHANGED <<engineVars, stats, llm_client, validatorVars, escaped>>

\* parse_invoice after the OCR stage returned: abort, or read text and
\* confidence from the result (a missing key raises into the handler)
AfterOcr ==
    /\ pc = "ocr_returned"
    /\ IF ocr_failed(run.ocr_result)
       THEN ParseInvoiceReturn(ocr_failure_result(run.ocr_result))
       ELSE IF ~({"text", "confidence"} \subseteq DOMAIN run.ocr_result)
       THEN ParseInvoiceReturn(pipeline_failure_result("KeyError"))
       ELSE /\ pc' = "NORMALIZE"
            /\ run' = [run EXCEPT !.raw_text = run.ocr_result.text,
                                  !.ocr_confidence = run.ocr_result.confidence]
            /\ UNCHANGED result
    /\ et' = InitEt
    /\ file_path' = NoValue
    /\ hist' = [hist EXCEPT !.ocr_result = run.ocr_result]
    /\ UNCHANGED <<engineVars, stats, llm_client, validatorVars, escaped>>

\* stage NORMALIZE: _preprocess_text
Normalize ==
    /\ pc = "NORMALIZE"
    /\ run' = [run EXCEPT !.processed_text = preprocess_text(run.raw_text)]
    /\ hist' = [hist EXCEPT !.stages = Append(@, "NORMALIZE")]
    /\ pc' = "EXTRACT"
    /\ UNCHANGED <<engineVars, stats, llm_client, validatorVars, file_path,
                   et, result, escaped>>

\* stage EXTRACT: _extract_structured_data with its one call of
\* llm_client.generate_structured, then abort or go on
Extract ==
    /\ pc = "EXTRACT"
    /\ \E o \in LlmOutcomes :
         LET r == extract_structured_data(o)
         IN  /\ hist' = [hist EXCEPT !.stages = Append(@, "EXTRACT"),
                                     !.llm_calls = @ + 1,
                                     !.llm_outcome = o,
                                     !.llm_result = r]
             /\ IF llm_failed(r)
                THEN ParseInvoiceReturn(llm_failure_result(r))
                ELSE IF ~({"data", "confidence"} \subseteq DOMAIN r)
                THEN ParseInvoiceReturn(pipeline_failure_result("KeyError"))
                ELSE /\ pc' = "COERCE"
                     /\ run' = [run EXCEPT !.parsed_data = r.data,
                                           !.llm_confidence = r.confidence,
                                           !.processed_text = NoValue]
                     /\ UNCHANGED result
    /\ UNCHANGED <<engineVars, stats, llm_client, validatorVars, file_path,
                   et, escaped>>

\* stage COERCE: _convert_data_types
CoerceWith(st, r) ==
    /\ hist' = [hist EXCEPT !.stages = Append(@, "COERCE"),
                            !.coerce_in = run.parsed_data,
                            !.coerce_out = st.data,
                            !.coerce_raised = st.raised]
    /\ IF r.kind = "raise"
       THEN ParseInvoiceReturn(pipeline_failure_result(r.exc))
       ELSE /\ pc' = "VALIDATE"
            /\ run' = [run EXCEPT !.parsed_data = r.value]
            /\ UNCHANGED result
    /\ UNCHANGED <<engineVars, stats, llm_client, validatorVars, file_path,
                   et, escaped>>

Coerce ==
    /\ pc = "COERCE"
    /\ CoerceWith(convert_state(run.parsed_data),
                  convert_data_types(run.parsed_data))

\* stage VALIDATE, _validate_data: the Price Validator; an exception out of
\* it goes to the handler of _validate_data, past the Duplicate Validator
ValidatePrice ==
    /\ pc = "VALIDATE"
    /\ hist' = [hist EXCEPT !.stages = Append(@, "VALIDATE"),
                            !.validators = Append(@, "price")]
    /\ LET r == price_validate(run.parsed_data, price_history)
       IN  IF r.kind = "raise"
           THEN /\ pc' = "ASSEMBLE"
                /\ run' = [run EXCEPT !.alerts = <<validation_error_alert>>]
           ELSE /\ pc' = "VALIDATE_DUPLICATE"
                /\ run' = [run EXCEPT !.alerts = r.value]
    /\ UNCHANGED <<engineVars, stats, llm_client, validatorVars, file_path,
                   et, result, escaped>>

\* stage VALIDATE, _validate_data: the Duplicate Validator
ValidateDuplicate ==
    /\ pc = "VALIDATE_DUPLICATE"
    /\ LET r == duplicate_validate(run.parsed_data, processed_invoices)
       IN  /\ processed_invoices' = r.processed
           /\ hist' = [hist EXCEPT
                         !.validators = Append(@, "duplicate"),
                         !.submitted = @ \cup (r.processed
                                                  \ processed_invoices)]
           /\ run' = [run EXCEPT !.alerts =
                         IF r.out.kind = "raise"
                         THEN Append(@, validation_error_alert)
                         ELSE @ \o r.out.value]
    /\ pc' = "ASSEMBLE"
    /\ UNCHANGED <<engineVars, stats, llm_client, price_history, validating,
                   file_path,
                   et, result, escaped>>

\* parse_invoice: overall confidence, the result, return
Assemble ==
    /\ pc = "ASSEMBLE"
    /\ hist' = [hist EXCEPT !.stages = Append(@, "DONE")]
    /\ ParseInvoiceReturn(success_result(run))
    /\ UNCHANGED <<engineVars, stats, llm_client, validatorVars, file_path,
                   et, escaped>>

Next ==
    \/ Construct
    \/ ParseInvoice
    \/ ExtractTextBegin
    \/ ExtractTextPrimary
    \/ ExtractTextFallback
    \/ ExtractTextFinish
    \/ AfterOcr
    \/ Normalize
    \/ Extract
    \/ Coerce
    \/ ValidatePrice
    \/ ValidateDuplicate
    \/ Assemble

Spec == Init /\ [][Next]_vars

-----------------------------------------------------------------------------
(* The parse route: POST /invoices/{invoice_id}/parse builds a pipeline of  *)
(* its own for every request and awaits its parse_invoice.                  *)

\* the process has started; no pipeline exists yet
InitRoute ==
    /\ pc = "idle"
    /\ primary_engine = None
    /\ tesseract_available \in BOOLEAN
    /\ stats = InitStats
    /\ llm_client = None
    /\ processed_invoices = {}
    /\ price_history = {}
    /\ validating = NoCalls
    /\ file_path = NoValue
    /\ et = InitEt
    /\ run = InitRun
    /\ result = NoValue
    /\ escaped = FALSE
    /\ hist = InitHist

\* what the route answers when its try block raises
HTTP500 == [status_code |-> 500, detail |-> "Error parsing invoice."]

\* routes.invoice.parse_invoice for an invoice whose file exists:
\* pipeline = InvoiceParsingPipeline(), with a new OCREngine and new
\* validators, then await pipeline.parse_invoice(str(file_path)); an
\* exception of the constructor is answered with status 500. The handler
\* stores raw_text and parsed_data of the result, not the alerts.
RouteParseInvoice ==
    /\ pc = "idle"
    /\ hist.ncalls < MaxRuns
    /\ \E c \in {pipeline_llm_client(None, None, env) : env \in Environments},
          f \in {x \in FilePaths : x.exists} :
             IF c.kind = "raise"
             THEN /\ result' = HTTP500
                  /\ hist' = NewCallHist
                  /\ UNCHANGED <<pc, primary_engine, stats, llm_client,
                                 validatorVars, file_path, et, run>>
             ELSE /\ primary_engine' = "tesseract"
                  /\ stats' = InitStats
                  /\ llm_client' = c.value
                  /\ processed_invoices' = {}
                  /\ price_history' = {}
                  /\ UNCHANGED validating
                  /\ file_path' = f
                  /\ hist' = [NewCallHist EXCEPT !.stages = <<"OCR">>,
                                                 !.stats0 = InitStats,
                                                 !.processed0 = {}]
                  /\ pc' = "et_begin"
                  /\ et' = [InitEt EXCEPT !.caller = "pipeline"]
                  /\ run' = InitRun
                  /\ result' = NoValue
    /\ UNCHANGED <<tesseract_available, escaped>>

NextRoute ==
    \/ RouteParseInvoice
    \/ ExtractTextBegin
    \/ ExtractTextPrimary
    \/ ExtractTextFallback
    \/ ExtractTextFinish
    \/ AfterOcr
    \/ Normalize
    \/ Extract
    \/ Coerce
    \/ ValidatePrice
    \/ ValidateDuplicate
    \/ Assemble

SpecRoute == InitRoute /\ [][NextRoute]_vars

-----------------------------------------------------------------------------
(* Structured Extraction Client: generate_structured of the LLM clients.    *)
(* A response text is a sequence of characters. json.loads is modelled for  *)
(* the JSON of the sample texts: objects with at most one member whose key  *)
(* is one character long, string literals without escapes, unsigned         *)
(* integers (kept, as all numbers, in hundredths), nesting, whitespace.     *)

\* str.find(c): the 0-based index of the first c, or -1
find(s, c) ==
    IF \E i \in 1..Len(s) : s[i] = c
    THEN (CHOOSE i \in 1..Len(s) : s[i] = c /\ \A j \in 1..(i - 1) : s[j] /= c)
         - 1
    ELSE -1

\* str.rfind(c): the 0-based index of the last c, or -1
rfind(s, c) ==
    IF \E i \in 1..Len(s) : s[i] = c
    THEN (CHOOSE i \in 1..Len(s) :
              s[i] = c /\ \A j \in (i + 1)..Len(s) : s[j] /= c) - 1
    ELSE -1

\* s[a:b] for 0 <= a and 0 <= b <= len(s)
slice(s, a, b) == SubSeq(s, a + 1, b)

\* the position of the first character at or after i that is no whitespace
RECURSIVE skip_ws(_, _)
skip_ws(s, i) ==
    IF i <= Len(s) /\ s[i] \in Whitespace THEN skip_ws(s, i + 1) ELSE i

\* the position after the last digit of the run of digits that starts at i
RECURSIVE digits_end(_, _)
digits_end(s, i) ==
    IF i <= Len(s) /\ s[i] \in Digits THEN digits_end(s, i + 1) ELSE i

\* the position of the first '"' at or after i, or Len(s) + 1
RECURSIVE quote_at(_, _)
quote_at(s, i) ==
    IF i <= Len(s) /\ s[i] /= "\"" THEN quote_at(s, i + 1) ELSE i

NoParse == [ok |-> FALSE]

\* the JSON value that starts at position i of s (after whitespace), and
\* the position after it
RECURSIVE parse_value(_, _)
parse_value(s, i) ==
    LET j == skip_ws(s, i)
    IN  IF j > Len(s) THEN NoParse
        ELSE IF s[j] \in Digits
        THEN LET e == digits_end(s, j)
             IN  IF s[j] = "0" /\ e > j + 1 THEN NoParse
                 ELSE [ok |-> TRUE, next |-> e,
                       v |-> JNum(digits_value(SubSeq(s, j, e - 1)) * 100)]
        ELSE IF s[j] = "\""
        THEN LET e == quote_at(s, j + 1)
             IN  IF e > Len(s) THEN NoParse
                 ELSE [ok |-> TRUE, next |-> e + 1,
                       v |-> JStr(SubSeq(s, j + 1, e - 1))]
        ELSE IF s[j] /= "{" THEN NoParse
        ELSE LET k == skip_ws(s, j + 1)
             IN  IF k > Len(s) THEN NoParse
                 ELSE IF s[k] = "}"
                 THEN [ok |-> TRUE, next |-> k + 1, v |-> JDict(<<>>)]
                 ELSE IF ~(s[k] = "\"" /\ k + 2 <= Len(s) /\ s[k + 1] /= "\""
                           /\ s[k + 2] = "\"")
                 THEN NoParse
                 ELSE LET c == skip_ws(s, k + 3)
                      IN  IF c > Len(s) \/ s[c] /= ":" THEN NoParse
                          ELSE LET r == parse_value(s, c + 1)
                               IN  IF ~r.ok THEN NoParse
                                   ELSE LET m == skip_ws(s, r.next)
                                        IN  IF m > Len(s) \/ s[m] /= "}"
                                            THEN NoParse
                                            ELSE [ok |-> TRUE, next |-> m + 1,
                                                  v |-> JDict([x \in {s[k + 1]}
                                                                 |-> r.v])]

\* json.loads(s): one value, then only whitespace
json_loads(s) ==
    LET r == parse_value(s, 1)
    IN  IF r.ok /\ skip_ws(s, r.next) > Len(s) THEN Return(r.v)
        ELSE Raise("JSONDecodeError")

json_span_first_close(text) ==
    LET start_idx == find(text, "{")
        end_idx == find(text, "}") + 1
    IN  IF start_idx /= -1 /\ end_idx /= 0
        THEN Return(slice(text, start_idx, end_idx))
        ELSE Raise("No JSON found in response")

\* generate_structured: the text from the first '{' to the last '}', or
\* ValueError("No JSON found in response")
json_span(text) ==
    LET start_idx == find(text, "{")
        end_idx == rfind(text, "}") + 1
    IN  IF start_idx /= -1 /\ end_idx /= 0
        THEN Return(slice(text, start_idx, end_idx))
        ELSE Raise("No JSON found in response")

cleaned_response_first_close(text) ==
    LET stripped == rstrip(lstrip(text))
        from_open == IF find(stripped, "{") /= -1
                     THEN slice(stripped, find(stripped, "{"), Len(stripped))
                     ELSE stripped
    IN  IF find(from_open, "}") /= -1
        THEN slice(from_open, 0, find(from_open, "}") + 1)
        ELSE from_open

\* OllamaClient.generate_structured, the clean-up of its repair pass
cleaned_response(text) ==
    LET stripped == rstrip(lstrip(text))
        from_open == IF find(stripped, "{") /= -1
                     THEN slice(stripped, find(stripped, "{"), Len(stripped))
                     ELSE stripped
    IN  IF rfind(from_open, "}") /= -1
        THEN slice(from_open, 0, rfind(from_open, "}") + 1)
        ELSE from_open

\* OllamaClient.generate_structured, given what generate did (o): what it
\* returns or raises, and how many times it called json.loads
ollama_generate_structured(o) ==
    IF o.kind = "raise"
    THEN [out |-> Raise("Ollama API error"), parses |-> 0]
    ELSE LET j == json_span(o.value)
         IN  IF j.kind = "raise" THEN [out |-> j, parses |-> 0]
             ELSE LET r == json_loads(j.value)
                  IN  IF r.kind = "return" THEN [out |-> r, parses |-> 1]
                      ELSE LET r2 == json_loads(cleaned_response(o.value))
                           IN  IF r2.kind = "return"
                               THEN [out |-> r2, parses |-> 2]
                               ELSE [out |->
                                       Raise("Failed to parse JSON response"),
                                     parses |-> 2]

\* GeminiClient.generate_structured: no repair pass
gemini_generate_structured(o) ==
    IF o.kind = "raise"
    THEN [out |-> Raise("Gemini API error"), parses |-> 0]
    ELSE LET j == json_span(o.value)
         IN  IF j.kind = "raise" THEN [out |-> j, parses |-> 0]
             ELSE LET r == json_loads(j.value)
                  IN  IF r.kind = "return" THEN [out |-> r, parses |-> 1]
                      ELSE [out |-> Raise("Failed to parse JSON response"),
                            parses |-> 1]

\* the client classes a pipeline can hold; OpenAIClient, AnthropicClient
\* and HuggingFaceClient exist only in their delegating form
ClientClasses == {"OllamaClient", "GeminiClient", "OpenAIClient",
                  "AnthropicClient", "HuggingFaceClient"}

\* llm_client.generate_structured
generate_structured(client, o) ==
    IF client = "GeminiClient" THEN gemini_generate_structured(o)
    ELSE ollama_generate_structured(o)

\* characters of the prose a model puts around its JSON
ProseChars == {"x", " ", "{", "}"}

Prose == UNION {[1..n -> ProseChars] : n \in 0..MaxProse}

\* texts a model may answer with, before prose is put around them
Cores ==
    {<<"{", "}">>,
     <<"{", "\"", "a", "\"", ":", "1", "}">>,
     <<"{", "\"", "a", "\"", ":", "\"", "b", "\"", "}">>,
     <<"{", "\"", "a", "\"", ":", "{", "\"", "b", "\"", ":", "1", "2", "}",
       "}">>,
     <<"{", " ", "\"", "a", "\"", " ", ":", " ", "1", " ", "}">>,
     <<"{", "\"", "a", "\"", " ", "1", "}">>,
     <<"{", "\"", "a", "\"", ":", "1">>,
     <<"\"", "a", "\"", ":", "1", "}">>,
     <<"{", "\"", "a", "\"", ":", "}">>,
     <<"{", "a", ":", "1", "}">>,
     <<"{", "}", "{", "}">>,
     <<"}", "{">>,
     <<"1">>,
     <<>>}

ResponseTexts == {p \o c \o q : p \in Prose, c \in Cores, q \in Prose}

\* what generate does: it returns the text of the model, or raises
GenerateOutcomes ==
    {Return(t) : t \in ResponseTexts} \cup {Raise("RequestException")}

\* a stand-alone LLM client, as LLMFactory.create_client returns it
InitLLM ==
    /\ pc = "idle"
    /\ primary_engine = None
    /\ tesseract_available = FALSE
    /\ stats = InitStats
    /\ llm_client \in ClientClasses
    /\ processed_invoices = {}
    /\ price_history = {}
    /\ validating = NoCalls
    /\ file_path = NoValue
    /\ et = InitEt
    /\ run = InitRun
    /\ result = NoValue
    /\ escaped = FALSE
    /\ hist = InitHist

\* a caller calls llm_client.generate_structured(prompt, schema); result is
\* what the call returns or raises. The clients keep nothing from one call
\* to the next, so a behaviour is one call.
CallGenerateStructured ==
    /\ pc = "idle"
    /\ hist.ncalls = 0
    /\ \E o \in GenerateOutcomes :
         LET g == generate_structured(llm_client, o)
         IN  /\ hist' = [NewCallHist EXCEPT !.llm_calls = 1,
                                            !.response = o,
                                            !.parses = g.parses,
                                            !.llm_outcome = g.out]
             /\ result' = g.out
    /\ UNCHANGED <<pc, engineVars, stats, llm_client, validatorVars,
                   file_path, et, run, escaped>>

NextLLM == CallGenerateStructured

SpecLLM == InitLLM /\ [][NextLLM]_vars

-----------------------------------------------------------------------------
(* Price Validator: _validate_item_price on its own, for a lookup of the    *)
(* historical price that returns a price or None. Prices are in cents.      *)

\* what a lookup of the historical price returns: None, 0.0, or a price
HistoricalPrices == {JNull, JNum(0), JNum(100), JNum(10000)}

\* unit prices around the 5% and 20% bounds of the price 1.00, on both sides
UnitPrices ==
    {JNum(c) : c \in {79, 80, 81, 94, 95, 96, 100, 104, 105, 106, 119, 120,
                      121, 10000, 10001, 12000, 12100}}
    \cup {JNull, JNum(0), JStr(<<"1", "5", "O">>)}

PriceItems == {put(GoodItem, "unit_price", u) : u \in UnitPrices}

InitPrice ==
    /\ pc = "idle"
    /\ primary_engine = None
    /\ tesseract_available = FALSE
    /\ stats = InitStats
    /\ llm_client = None
    /\ processed_invoices = {}
    /\ price_history = {}
    /\ validating = NoCalls
    /\ file_path = NoValue
    /\ et = InitEt
    /\ run = InitRun
    /\ result = NoValue
    /\ escaped = FALSE
    /\ hist = InitHist

\* PriceValidator.validate calls _validate_item_price(vendor_name, item),
\* whose lookup returns old; result is the list of alerts it returns
CallValidateItemPrice ==
    /\ pc = "idle"
    /\ hist.ncalls < MaxCalls
    /\ \E item \in PriceItems, old \in HistoricalPrices :
         /\ hist' = [NewCallHist EXCEPT !.item = item,
                                        !.historical_price = old]
         /\ result' = validate_item_price_given(item, old)
    /\ UNCHANGED <<pc, engineVars, stats, llm_client, validatorVars,
                   file_path, et, run, escaped>>

\* the record x with x[key] = v, or without the key when v is no value
with_field(x, key, v) ==
    IF v = NoValue THEN without(x, key) ELSE put(x, key, v)

\* totals: None, 0.0, amounts next to subtotal + tax = 3.00, amounts on both
\* sides of 10000.00, and a string left by a failed conversion
Totals ==
    {JNull, JNum(0), JNum(299), JNum(300), JNum(301), JNum(302),
     JNum(1000000), JNum(1000001), JStr(<<"I">>)}

\* subtotals: absent, None, numbers, and an unconverted string
Subtotals ==
    {NoValue, JNull, JNum(300), JNum(1000001), JStr(<<"3", ".", "0", "0">>)}

\* taxes: absent, None, numbers, and a string that does not convert
Taxes == {NoValue, JNull, JNum(0), JNum(1), JStr(<<"O", ".", "3">>)}

\* items: absent, None, and lists of items with prices below and above 100
ItemLists ==
    {NoValue, JNull,
     JList(<<PricedItem("a", 150)>>),
     JList(<<PricedItem("b", 12000), PricedItem("a", 150),
             PricedItem("c", 10001)>>)}

PriceRecords ==
    {with_field(with_field(with_field(with_field(GoodInvoice,
         "total", t), "subtotal", s), "tax", x), "items", i) :
       t \in Totals, s \in Subtotals, x \in Taxes, i \in ItemLists}

\* a caller awaits PriceValidator.validate(parsed_data); result is the list
\* of alerts it returns
CallPriceValidate ==
    /\ pc = "idle"
    /\ hist.ncalls < MaxCalls
    /\ \E data \in PriceRecords :
         /\ hist' = [NewCallHist EXCEPT !.record = data]
         /\ result' = price_validate(data, price_history).value
    /\ UNCHANGED <<pc, engineVars, stats, llm_client, validatorVars,
                   file_path, et, run, escaped>>

NextPrice ==
    \/ CallValidateItemPrice
    \/ CallPriceValidate

SpecPrice == InitPrice /\ [][NextPrice]_vars

-----------------------------------------------------------------------------
(* Price Validator: one PriceValidator on its own whose caller records      *)
(* prices with update_price_history between its validate calls. The items   *)
(* validated are those whose prices were recorded, at other prices.         *)

\* descriptions and prices (in cents) a caller records for the vendor "A"
RecordedDescriptions == {JStr(<<"a">>), JStr(<<"b">>)}
RecordedPrices == {100, 10000}

\* records whose items are those of the recorded history
HistoryRecords ==
    {with_field(GoodInvoice, "items", i) :
       i \in {JList(<<PricedItem("a", 100)>>),
              JList(<<PricedItem("a", 150)>>),
              JList(<<PricedItem("b", 12000), PricedItem("a", 150),
                      PricedItem("c", 10001)>>)}}

\* a caller calls update_price_history(vendor_name, item_description, price)
UpdatePriceHistory ==
    /\ pc = "idle"
    /\ \E d \in RecordedDescriptions, p \in RecordedPrices :
         price_history' =
             update_price_history(price_history, JStr(<<"A">>), d, p)
    /\ UNCHANGED <<pc, engineVars, stats, llm_client, processed_invoices,
                   validating, file_path, et, run, result, escaped, hist>>

\* a caller awaits PriceValidator.validate(parsed_data) on the validator
\* with its recorded history
CallHistoryValidate ==
    /\ pc = "idle"
    /\ hist.ncalls < MaxCalls
    /\ \E data \in HistoryRecords :
         /\ hist' = [NewCallHist EXCEPT !.record = data]
         /\ result' = price_validate(data, price_history).value
    /\ UNCHANGED <<pc, engineVars, stats, llm_client, validatorVars,
                   file_path, et, run, escaped>>

NextHistory ==
    \/ UpdatePriceHistory
    \/ CallHistoryValidate

SpecHistory == InitPrice /\ [][NextHistory]_vars

-----------------------------------------------------------------------------
(* Text Normalizer: _preprocess_text on its own, applied to a text and then *)
(* to its own output.                                                       *)

\* characters of the texts: a letter, the two characters that are replaced,
\* and two kinds of whitespace
TextChars == {"A", "|", "0", " ", "\n"}

Texts == UNION {[1..n -> TextChars] : n \in 0..MaxText}

InitNormalize ==
    /\ pc = "idle"
    /\ primary_engine = None
    /\ tesseract_available = FALSE
    /\ stats = InitStats
    /\ llm_client = None
    /\ processed_invoices = {}
    /\ price_history = {}
    /\ validating = NoCalls
    /\ file_path = NoValue
    /\ et = InitEt
    /\ \E t \in Texts : run = [InitRun EXCEPT !.raw_text = t]
    /\ result = NoValue
    /\ escaped = FALSE
    /\ hist = InitHist

\* processed_text = _preprocess_text(raw_text)
CallPreprocessText ==
    /\ run.processed_text = NoValue
    /\ run' = [run EXCEPT !.processed_text = preprocess_text(run.raw_text)]
    /\ UNCHANGED <<pc, engineVars, stats, llm_client, validatorVars,
                   file_path, et, result, escaped, hist>>

\* _preprocess_text(processed_text): the normalizer on its own output
CallPreprocessAgain ==
    /\ run.processed_text /= NoValue
    /\ result = NoValue
    /\ result' = preprocess_text(run.processed_text)
    /\ UNCHANGED <<pc, engineVars, stats, llm_client, validatorVars,
                   file_path, et, run, escaped, hist>>

NextNormalize ==
    \/ CallPreprocessText
    \/ CallPreprocessAgain

SpecNormalize == InitNormalize /\ [][NextNormalize]_vars

-----------------------------------------------------------------------------
(* Duplicate Validator: one DuplicateValidator used on its own by two       *)
(* callers whose validate calls may overlap. A call runs in steps: the      *)
(* reading of the record with the test for the invoice number, the          *)
(* membership check, and the recording of the key.                          *)

\* invoice numbers: absent, None, empty, 0, and two numbers
InvoiceNumbers ==
    {NoValue, JNull, JStr(<<>>), JNum(0), JStr(<<"7">>), JStr(<<"8">>)}

\* vendor names: absent ('Unknown' is used) and a name
VendorNames == {NoValue, JStr(<<"A">>)}

\* two pairs with a ':' on either side of the one the key puts in between
ColonPairs ==
    {[vendor_name |-> JStr(<<"A", ":", "B">>),
      invoice_number |-> JStr(<<"C">>)],
     [vendor_name |-> JStr(<<"A">>),
      invoice_number |-> JStr(<<"B", ":", "C">>)]}

DupRecords ==
    {with_field(with_field(GoodInvoice, "invoice_number", n),
                "vendor_name", v) :
       n \in InvoiceNumbers, v \in VendorNames}
    \cup {put(put(GoodInvoice, "invoice_number", p.invoice_number),
              "vendor_name", p.vendor_name) : p \in ColonPairs}

InitDup ==
    /\ pc = "idle"
    /\ primary_engine = None
    /\ tesseract_available = FALSE
    /\ stats = InitStats
    /\ llm_client = None
    /\ processed_invoices = {}
    /\ price_history = {}
    /\ validating = NoCalls
    /\ file_path = NoValue
    /\ et = InitEt
    /\ run = InitRun
    /\ result = NoValue
    /\ escaped = FALSE
    /\ hist = InitHist

\* the (vendor, invoice_number) pair of a frame, as validate reads it
frame_pair(fr) ==
    [vendor_name |-> get(fr.data, "vendor_name", Unknown),
     invoice_number |-> get(fr.data, "invoice_number", JNull)]

\* the key a frame checks and records
frame_key(fr) ==
    invoice_key(get(fr.data, "invoice_number", JNull),
                get(fr.data, "vendor_name", Unknown))

\* caller c calls validate(parsed_data): the fields are read; without an
\* invoice number the call returns the missing_invoice_number alert
DupValidateBeginOn(c, records) ==
    /\ validating[c].pc \in {"idle", "done"}
    /\ hist.ncalls < MaxCalls
    /\ \E data \in records :
         IF missing_invoice_number(data)
         THEN /\ validating' = [validating EXCEPT ![c] =
                    [pc |-> "done", id |-> hist.ncalls + 1, data |-> data,
                     alerts |-> <<Alert("missing_invoice_number", "high",
                                        JNull)>>]]
              /\ result' = <<Alert("missing_invoice_number", "high", JNull)>>
         ELSE /\ validating' = [validating EXCEPT ![c] =
                    [pc |-> "check", id |-> hist.ncalls + 1, data |-> data,
                     alerts |-> <<>>]]
              /\ UNCHANGED result
    /\ hist' = [hist EXCEPT !.ncalls = @ + 1]
    /\ UNCHANGED <<pc, engineVars, stats, llm_client, processed_invoices,
                   price_history, file_path, et, run, escaped>>

DupValidateBegin(c) == DupValidateBeginOn(c, DupRecords)

\* the call of caller c awaits _is_duplicate_invoice_number
DupValidateCheck(c) ==
    /\ validating[c].pc = "check"
    /\ LET fr == validating[c]
           invoice_number == get(fr.data, "invoice_number", JNull)
           vendor_name == get(fr.data, "vendor_name", Unknown)
       IN  /\ validating' = [validating EXCEPT
                 ![c].pc = "record",
                 ![c].alerts =
                     IF is_duplicate_invoice_number(processed_invoices,
                                                    invoice_number,
                                                    vendor_name)
                     THEN <<Alert("duplicate_invoice_number", "high",
                                  invoice_number)>>
                     ELSE <<>>]
           /\ hist' = [hist EXCEPT !.events =
                         Append(@, [id |-> fr.id, op |-> "check",
                                    key |-> frame_key(fr),
                                    pair |-> frame_pair(fr)])]
    /\ UNCHANGED <<pc, engineVars, stats, llm_client, processed_invoices,
                   price_history, file_path, et, run, result, escaped>>

\* the call of caller c awaits _find_similar_invoices, records the key with
\* _add_processed_invoice and returns its alerts
DupValidateRecord(c) ==
    /\ validating[c].pc = "record"
    /\ LET fr == validating[c]
           invoice_number == get(fr.data, "invoice_number", JNull)
           vendor_name == get(fr.data, "vendor_name", Unknown)
           alerts == fr.alerts
                     \o (IF find_similar_invoices(vendor_name,
                               get(fr.data, "invoice_date", JNull),
                               get(fr.data, "total", JNull)) /= <<>>
                         THEN <<Alert("similar_invoice", "medium", JNull)>>
                         ELSE <<>>)
       IN  /\ processed_invoices' =
                 add_processed_invoice(processed_invoices, invoice_number,
                                       vendor_name)
           /\ validating' = [validating EXCEPT ![c].pc = "done",
                                               ![c].alerts = alerts]
           /\ result' = alerts
           /\ hist' = [hist EXCEPT !.events =
                         Append(@, [id |-> fr.id, op |-> "record",
                                    key |-> frame_key(fr),
                                    pair |-> frame_pair(fr)])]
    /\ UNCHANGED <<pc, engineVars, stats, llm_client, price_history,
                   file_path, et, run, escaped>>

NextDup ==
    \E c \in Callers :
        \/ DupValidateBegin(c)
        \/ DupValidateCheck(c)
        \/ DupValidateRecord(c)

SpecDup == InitDup /\ [][NextDup]_vars

-----------------------------------------------------------------------------
(* Duplicate Validator: one caller that validates one record after the      *)
(* other and, between two calls, may empty the set with clear_cache or go   *)
(* on with a new DuplicateValidator, as every new InvoiceParsingPipeline    *)
(* (one per request of the parse route) does.                               *)

\* records with two invoice numbers, and one without
CacheRecords ==
    {put(GoodInvoice, "invoice_number", n) :
       n \in {JStr(<<"7">>), JStr(<<"8">>), JNull}}

\* an entry of the event log for an emptied or a new set
ResetEvent(op) == [id |-> 0, op |-> op, key |-> <<>>, pair |-> NoValue]

CacheValidateBegin == DupValidateBeginOn(1, CacheRecords)

\* the caller calls clear_cache(): processed_invoices.clear()
ClearCache ==
    /\ validating[1].pc \in {"idle", "done"}
    /\ hist.resets < MaxResets
    /\ processed_invoices' = clear_cache(processed_invoices)
    /\ hist' = [hist EXCEPT !.resets = @ + 1,
                            !.events = Append(@, ResetEvent("clear"))]
    /\ UNCHANGED <<pc, engineVars, stats, llm_client, price_history,
                   validating, file_path, et, run, result, escaped>>

\* the caller builds a new validator, DuplicateValidator.__init__:
\* processed_invoices = set(), and makes its later calls on it
NewValidator ==
    /\ validating[1].pc \in {"idle", "done"}
    /\ hist.resets < MaxResets
    /\ processed_invoices' = {}
    /\ hist' = [hist EXCEPT !.resets = @ + 1,
                            !.events = Append(@, ResetEvent("new"))]
    /\ UNCHANGED <<pc, engineVars, stats, llm_client, price_history,
                   validating, file_path, et, run, result, escaped>>

NextCache ==
    \/ CacheValidateBegin
    \/ DupValidateCheck(1)
    \/ DupValidateRecord(1)
    \/ ClearCache
    \/ NewValidator

SpecCache == InitDup /\ [][NextCache]_vars

-----------------------------------------------------------------------------
(* Properties *)

\* the call in progress has returned to its caller
Returned == pc = "idle" /\ hist.ncalls > 0

\* a result dict that reports success
Succeeded(r) == "success" \in DOMAIN r /\ r.success

\* a result dict that reports failure
Failed(r) == "success" \in DOMAIN r /\ ~r.success

IsPrefix(s, t) ==
    /\ Len(s) <= Len(t)
    /\ \A i \in 1..Len(s) : s[i] = t[i]

StageOrder == <<"OCR", "NORMALIZE", "EXTRACT", "COERCE", "VALIDATE", "DONE">>

\* C1: in every run of parse_invoice the stages entered so far are an initial
\* part of OCR, NORMALIZE, EXTRACT, COERCE, VALIDATE, DONE (so each runs at
\* most once, only after all earlier ones, and none is re-entered), and a run
\* ends either after DONE with success, or after OCR with "OCR extraction
\* failed", or after EXTRACT with "LLM extraction failed".
C1_StageOrder ==
    /\ IsPrefix(hist.stages, StageOrder)
    /\ Returned =>
         \/ Succeeded(result) /\ hist.stages = StageOrder
         \/ /\ Failed(result)
            /\ hist.stages = <<"OCR">>
            /\ result.error = "OCR extraction failed"
         \/ /\ Failed(result)
            /\ hist.stages = <<"OCR", "NORMALIZE", "EXTRACT">>
            /\ result.error = "LLM extraction failed"

\* a run went through all six stages and returned success
C1_Witness ==
    Returned /\ Succeeded(result) /\ hist.stages = StageOrder

\* C2: when the OCR stage reports failure, parse_invoice returns
\* {success: false, error: "OCR extraction failed", details: the OCR error},
\* and in that run the LLM backend is not called and no validator runs.
C2_OcrFailureAborts ==
    Failed(hist.ocr_result) =>
        /\ Returned
        /\ result = [success |-> FALSE, error |-> "OCR extraction failed",
                     details |-> hist.ocr_result.error]
        /\ hist.llm_calls = 0
        /\ hist.validators = <<>>

\* a run whose OCR stage failed after both engines were tried
C2_Witness ==
    /\ Returned
    /\ Failed(hist.ocr_result)
    /\ hist.calls = <<"tesseract", "easyocr">>
    /\ result.details = "EasyOCR not implemented yet"

\* "absent or empty" for a required field
ClaimEmpty(v) == v \in {JNull, JStr(<<>>), JList(<<>>), JDict(<<>>)}

\* the response lacks a required field, or has an items element that is not
\* a mapping with both description and total
ClaimIncomplete(data) ==
    \/ \E f \in {"vendor_name", "invoice_number", "invoice_date", "total"} :
          f \notin DOMAIN data.d \/ ClaimEmpty(data.d[f])
    \/ /\ "items" \in DOMAIN data.d
       /\ data.d["items"].t = "list"
       /\ \E i \in 1..Len(data.d["items"].e) :
            LET e == data.d["items"].e[i]
            IN  \/ e.t /= "dict"
                \/ "description" \notin DOMAIN e.d
                \/ "total" \notin DOMAIN e.d

\* C3: when the LLM response lacks a required field (absent or empty) or has
\* an items element that is not a mapping with description and total,
\* parse_invoice returns {success: false, error: "LLM extraction failed"} and
\* neither coercion nor validation runs.
C3_IncompleteResponseAborts ==
    (hist.llm_outcome /= NoValue /\ hist.llm_outcome.kind = "return"
        /\ ClaimIncomplete(hist.llm_outcome.value)) =>
        /\ Returned
        /\ Failed(result)
        /\ result.error = "LLM extraction failed"
        /\ hist.stages = <<"OCR", "NORMALIZE", "EXTRACT">>
        /\ hist.coerce_in = NoValue
        /\ hist.validators = <<>>

\* a run aborted on a response without total
C3_Witness ==
    /\ Returned
    /\ hist.llm_outcome = Return(without(GoodInvoice, "total"))
    /\ result.error = "LLM extraction failed"

\* C4: in every run where OCR and structured extraction both succeeded,
\* parse_invoice returns success = true with all stages done, the alerts in
\* the result; an exception inside a validator shows as an alert only.
C4_ValidateNeverAborts ==
    (Returned /\ Succeeded(hist.ocr_result) /\ Succeeded(hist.llm_result)) =>
        /\ Succeeded(result)
        /\ hist.stages = StageOrder
        /\ hist.validators = <<"price", "duplicate">>
        /\ "validation_alerts" \in DOMAIN result

\* a successful run in which the Price Validator raised inside (items is
\* None) and reported it as an alert
C4_Witness ==
    /\ Returned
    /\ Succeeded(result)
    /\ \E i \in 1..Len(result.validation_alerts) :
          result.validation_alerts[i].type = "price_validation_error"

\* C5: every result of parse_invoice with success = false carries the error
\* "OCR extraction failed" or "LLM extraction failed".
C5_OnlyTwoFatalErrors ==
    (Returned /\ Failed(result)) =>
        result.error \in {"OCR extraction failed", "LLM extraction failed"}

\* a run that failed in the extraction stage because the backend raised
C5_Witness ==
    /\ Returned
    /\ Failed(result)
    /\ hist.llm_outcome = Raise("Ollama API error")
    /\ result.error = "LLM extraction failed"

\* a result object: a success flag with the full data, or with an error and
\* its details
WellFormedResult(r) ==
    /\ "success" \in DOMAIN r
    /\ IF r.success
       THEN {"raw_text", "parsed_data", "confidence_score", "ocr_confidence",
             "llm_confidence", "validation_alerts"} \subseteq DOMAIN r
       ELSE {"error", "details"} \subseteq DOMAIN r

\* C6: whatever the file path and the provider/model override, the caller
\* gets a result object with a success flag (full data, or an error and its
\* details) and no internal exception reaches it. The overrides are the
\* arguments of InvoiceParsingPipeline.__init__, whose call of
\* LLMFactory.create_client is not guarded: this does not hold.
C6_NoExceptionEscapes ==
    /\ ~escaped
    /\ Returned => WellFormedResult(result)

\* the constructor arguments and environment for which create_client raises
ConstructorRaises(c) ==
    \/ c.provider \notin {"ollama", "gemini", "deepseek", "llama", "openai",
                          "anthropic", "huggingface"}
    \/ c.provider = "gemini" /\ ~c.api_key
    \/ c.provider \in {"openai", "anthropic"} /\ c.api_key

\* What parse_invoice itself guarantees: on a constructed pipeline it returns
\* a result object for every file path; an exception reaches the caller only
\* from the constructor, exactly for an unsupported provider name, for gemini
\* without an API key and for openai or anthropic with one.
OnlyConstructorRaises ==
    /\ escaped <=> pc = "raised"
    /\ hist.ctor /= NoValue =>
          (pc = "raised" <=> ConstructorRaises(hist.ctor))
    /\ Returned => WellFormedResult(result)

\* C7: on every successful run llm_confidence is 0.9 and confidence_score is
\* (ocr_confidence + 0.9) / 2; OCR confidence 0.8 gives 0.85. (Confidences
\* are exact rationals here; the source computes in binary floating point.)
C7_Confidence ==
    (Returned /\ Succeeded(result)) =>
        LET o == result.ocr_confidence
            c == result.confidence_score
        IN  /\ result.llm_confidence = [n |-> 9, d |-> 10]
            /\ c.n * 2 * (o.d * 10) = (o.n * 10 + 9 * o.d) * c.d
            /\ o = [n |-> 4, d |-> 5] => c = [n |-> 17, d |-> 20]

\* a successful run with OCR confidence 0.8 and overall confidence 0.85
C7_Witness ==
    /\ Returned
    /\ Succeeded(result)
    /\ result.ocr_confidence = [n |-> 4, d |-> 5]
    /\ result.confidence_score = [n |-> 17, d |-> 20]

\* the file does not exist, or its extension (in any letter case) is not one
\* of pdf, png, jpg, jpeg, tiff, bmp
ClaimUnsupported(f) ==
    \/ ~f.exists
    \/ lower(f.suffix) \notin {".pdf", ".png", ".jpg", ".jpeg", ".tiff",
                                ".bmp"}

\* C8: a document that does not exist or whose extension is not supported is
\* rejected by extract_text with success = false before any adapter is
\* invoked: the call never reaches an engine and returns a failure.
C8_UnsupportedRejected ==
    (file_path /= NoValue /\ ClaimUnsupported(file_path)) =>
        /\ hist.calls = <<>>
        /\ pc \in {"et_begin", "idle"}
        /\ pc = "idle" => Failed(result) /\ hist.primary_result = NoValue

\* extract_text returned a failure for an existing .txt file
C8_Witness ==
    /\ pc = "idle"
    /\ file_path = [exists |-> TRUE, suffix |-> ".txt"]
    /\ Failed(result)
    /\ hist.calls = <<>>

\* C9: in a call of extract_text that reaches the engines, the primary
\* adapter is invoked exactly once; when it fails and the primary is not
\* easyocr (the last resort), the easyocr fallback is invoked exactly once
\* after it; when the primary succeeds, or is easyocr, no fallback is
\* invoked; no adapter is invoked twice and at most two are invoked.
C9_OneFallback ==
    /\ Len(hist.calls) <= 2
    /\ Len(hist.calls) = 2 => hist.calls[1] /= hist.calls[2]
    /\ (pc \in {"et_finish", "idle"} /\ hist.primary_result /= NoValue) =>
          LET primary == IF primary_engine \in {"tesseract", "easyocr"}
                         THEN <<primary_engine>> ELSE <<>>
          IN  IF Failed(hist.primary_result) /\ primary_engine /= "easyocr"
              THEN hist.calls = primary \o <<"easyocr">>
              ELSE hist.calls = primary

\* the primary (tesseract) failed and the fallback was invoked once
C9_Witness ==
    /\ pc = "idle"
    /\ primary_engine = "tesseract"
    /\ Failed(hist.primary_result)
    /\ hist.calls = <<"tesseract", "easyocr">>

\* C10: when the primary and the fallback adapter both fail in one call of
\* extract_text, the call reports failure, failed_extractions and
\* total_processed each grow by exactly 1, and successful_extractions and
\* average_confidence stay as they were.
C10_BothFailCountOnce ==
    (Returned /\ Failed(hist.primary_result) /\ Failed(hist.fallback_result)) =>
        /\ Failed(result)
        /\ stats.failed_extractions = hist.stats0.failed_extractions + 1
        /\ stats.total_processed = hist.stats0.total_processed + 1
        /\ stats.successful_extractions = hist.stats0.successful_extractions
        /\ stats.average_confidence = hist.stats0.average_confidence

\* both engines failed in a call that came after a successful one
C10_Witness ==
    /\ Returned
    /\ Failed(hist.primary_result)
    /\ Failed(hist.fallback_result)
    /\ hist.stats0.successful_extractions = 1
    /\ stats.failed_extractions = 1
    /\ stats.average_confidence = [n |-> 4, d |-> 5]

\* C11: every call of extract_text, a call that fails input validation
\* included, increases total_processed by exactly 1 and exactly one of
\* successful_extractions and failed_extractions by exactly 1. The return
\* for an invalid file comes before _update_stats: this does not hold.
C11_StatsEveryCall ==
    Returned =>
        /\ stats.total_processed = hist.stats0.total_processed + 1
        /\ \/ /\ stats.successful_extractions
                    = hist.stats0.successful_extractions + 1
              /\ stats.failed_extractions = hist.stats0.failed_extractions
           \/ /\ stats.successful_extractions
                    = hist.stats0.successful_extractions
              /\ stats.failed_extractions
                    = hist.stats0.failed_extractions + 1

\* the sum of a sequence of confidences
RECURSIVE SumOf(_)
SumOf(cs) == IF cs = <<>> THEN [n |-> 0, d |-> 1]
             ELSE LET x == Head(cs)
                      y == SumOf(Tail(cs))
                  IN  [n |-> x.n * y.d + y.n * x.d, d |-> x.d * y.d]

\* C12: after any sequence of extract_text calls average_confidence is the
\* arithmetic mean of the confidences of the successful extractions so far,
\* 0.0 when there were none; failed calls do not change it; successes with
\* 0.8 and 0.6 give 0.7. (Exact rationals; the source rounds in binary
\* floating point.)
C12_RunningMean ==
    pc = "idle" =>
        LET a == stats.average_confidence
            k == Len(hist.confs)
            t == SumOf(hist.confs)
        IN  /\ stats.successful_extractions = k
            /\ k = 0 => a.n = 0
            /\ k > 0 => a.n * (t.d * k) = t.n * a.d
            /\ hist.confs = <<[n |-> 4, d |-> 5], [n |-> 3, d |-> 5]>>
                  => a = [n |-> 7, d |-> 10]

\* successes with 0.8 and 0.6, then a failed call: the mean is still 0.7
C12_Witness ==
    /\ Returned
    /\ hist.confs = <<[n |-> 4, d |-> 5], [n |-> 3, d |-> 5]>>
    /\ Failed(result)
    /\ stats.failed_extractions = 1
    /\ stats.average_confidence = [n |-> 7, d |-> 10]

\* C13: extract_text raises nothing to its caller: for every argument and
\* every adapter outcome, an adapter that raises included, the call returns
\* a dict with a success flag, and a failure dict carries an error.
C13_ExtractTextNeverRaises ==
    /\ ~escaped
    /\ pc /= "raised"
    /\ Returned =>
          /\ "success" \in DOMAIN result
          /\ ~result.success => "error" \in DOMAIN result

\* the primary adapter raised, the fallback failed, the call returned failure
C13_Witness ==
    /\ Returned
    /\ hist.primary_result = [success |-> FALSE,
                              error |-> "engine extraction failed"]
    /\ hist.calls = <<"tesseract", "easyocr">>
    /\ Failed(result)
    /\ "error" \in DOMAIN result

\* JSON objects and the values they denote
ClaimObjects ==
    {[text |-> <<"{", "}">>, value |-> [t |-> "dict", d |-> <<>>]],
     [text |-> <<"{", "\"", "a", "\"", ":", "1", "}">>,
      value |-> [t |-> "dict", d |-> [a |-> [t |-> "num", v |-> 100]]]],
     [text |-> <<"{", "\"", "a", "\"", ":", "\"", "b", "\"", "}">>,
      value |-> [t |-> "dict", d |-> [a |-> [t |-> "str", s |-> <<"b">>]]]],
     [text |-> <<"{", "\"", "a", "\"", ":", "{", "\"", "b", "\"", ":", "1", "2",
                 "}", "}">>,
      value |-> [t |-> "dict",
                 d |-> [a |-> [t |-> "dict",
                               d |-> [b |-> [t |-> "num", v |-> 1200]]]]]],
     [text |-> <<"{", " ", "\"", "a", "\"", " ", ":", " ", "1", " ", "}">>,
      value |-> [t |-> "dict", d |-> [a |-> [t |-> "num", v |-> 100]]]]}

Lacks(s, c) == \A i \in 1..Len(s) : s[i] /= c

\* C14: when the response is a valid JSON object with prose before it (no
\* '{' in it) and after it (no '}' in it), so that the object spans from the
\* first '{' to the last '}', generate_structured returns exactly that
\* object and raises nothing; when the response has no '{' it raises "No
\* JSON found in response". Both for the Ollama and the Gemini client.
C14_JsonRecovered ==
    (hist.response /= NoValue /\ hist.response.kind = "return") =>
        LET text == hist.response.value
        IN  /\ \A o \in ClaimObjects, p \in Prose, q \in Prose :
                  (Lacks(p, "{") /\ Lacks(q, "}") /\ text = p \o o.text \o q)
                      => result = [kind |-> "return", value |-> o.value]
            /\ Lacks(text, "{")
                  => result = [kind |-> "raise",
                               exc |-> "No JSON found in response"]

\* the Gemini client recovered a nested object from between two characters
\* of prose
C14_Witness ==
    /\ llm_client = "GeminiClient"
    /\ hist.response
         = [kind |-> "return",
            value |-> <<"x", "{", "\"", "a", "\"", ":", "{", "\"", "b", "\"",
                        ":", "1", "2", "}", "}", "x">>]
    /\ result.kind = "return"
    /\ result.value.d.a.d.b.v = 1200

\* C15: when parsing the recovered substring fails, the client makes exactly
\* one repair pass (a second json.loads, on the text cut before the first
\* '{' and after the last '}'), fails with "Failed to parse JSON response"
\* when that fails too, and calls the LLM once; for every backend. The
\* Gemini client has no repair pass: this does not hold.
C15_OneRepairPass ==
    (hist.parses > 0 /\ result.kind = "raise") =>
        /\ hist.parses = 2
        /\ result.exc = "Failed to parse JSON response"
        /\ hist.llm_calls = 1

\* a str that float() cannot read because of a character that belongs to no
\* number
ClaimUnparseable(x) ==
    /\ x.t = "str"
    /\ \E i \in 1..Len(x.s) :
          x.s[i] \notin {"0", "1", "2", "3", "4", "5", "6", "7", "8", "9",
                         ".", "-", "+", " "}

\* the items of a record, when they are a list
ItemsOf(data) ==
    IF "items" \in DOMAIN data.d /\ data.d["items"].t = "list"
    THEN data.d["items"].e ELSE <<>>

\* C16: coercion of a line item whose quantity is present and no number
\* (such as "I") sets the quantity to 1.0 and does not fail: unit_price and
\* total of the item are coerced all the same ("$1.50" to 1.5, "3.00" to
\* 3.0), and the run goes on to validation and ends in success.
C16_QuantityDefault ==
    hist.coerce_out /= NoValue =>
        \A i \in 1..Len(ItemsOf(hist.coerce_in)) :
            LET item == ItemsOf(hist.coerce_in)[i]
                out == ItemsOf(hist.coerce_out)[i]
            IN  ("quantity" \in DOMAIN item.d
                    /\ ClaimUnparseable(item.d["quantity"])) =>
                    /\ out.d["quantity"] = [t |-> "num", v |-> 100]
                    /\ item.d["unit_price"]
                            = [t |-> "str", s |-> <<"$", "1", ".", "5", "0">>]
                          => out.d["unit_price"] = [t |-> "num", v |-> 150]
                    /\ item.d["total"]
                            = [t |-> "str", s |-> <<"3", ".", "0", "0">>]
                          => out.d["total"] = [t |-> "num", v |-> 300]
                    /\ ~hist.coerce_raised
                    /\ Returned => Succeeded(result)

\* a run with quantity "I" returned success with quantity 1.0, unit_price
\* 1.5 and total 3.0 in the item, after both validators ran
C16_Witness ==
    /\ Returned
    /\ Succeeded(result)
    /\ hist.validators = <<"price", "duplicate">>
    /\ Len(ItemsOf(hist.coerce_in)) = 1
    /\ ItemsOf(hist.coerce_in)[1].d["quantity"] = [t |-> "str", s |-> <<"I">>]
    /\ ItemsOf(result.parsed_data)[1].d["quantity"] = [t |-> "num", v |-> 100]
    /\ ItemsOf(result.parsed_data)[1].d["unit_price"] = [t |-> "num", v |-> 150]
    /\ ItemsOf(result.parsed_data)[1].d["total"] = [t |-> "num", v |-> 300]

\* C17: after coercion quantity, unit_price and total of every line item
\* are numbers (or the default 1.0): no item reaches the validators with a
\* string in one of these fields. A unit_price or total that cannot be
\* parsed stops the conversion and stays a string: this does not hold.
C17_ItemsNumeric ==
    hist.validators /= <<>> =>
        \A i \in 1..Len(ItemsOf(hist.coerce_out)) :
            \A f \in {"quantity", "unit_price", "total"} :
                LET item == ItemsOf(hist.coerce_out)[i]
                IN  f \in DOMAIN item.d => item.d[f].t /= "str"

\* C18: when an exception occurs inside the coercion stage, the stage
\* returns its input unmodified, fields processed before the failing one
\* included. The dict is converted in place, and the handler returns it as
\* it is by then: this does not hold.
C18_InputUnmodified ==
    hist.coerce_raised => hist.coerce_out = hist.coerce_in

\* the record the validators were given makes `for item in items` raise
\* inside the Price Validator: items is present and is None or a number
ClaimPriceValidatorRaises ==
    /\ hist.coerce_out /= NoValue
    /\ "items" \in DOMAIN hist.coerce_out.d
    /\ hist.coerce_out.d["items"].t \in {"null", "num"}

\* the positions of the alerts of a result that report a validator failure
ErrorAlerts(alerts, types) ==
    {i \in 1..Len(alerts) : alerts[i].type \in types}

\* C19 as stated: the validators run in the order Price, Duplicate, and an
\* exception inside one of them becomes exactly one alert of type
\* validation_error with severity high, the other validator still running.
C19_ValidationErrorAlert ==
    (Returned /\ Succeeded(result)) =>
        /\ hist.validators = <<"price", "duplicate">>
        /\ ClaimPriceValidatorRaises =>
              \E i \in 1..Len(result.validation_alerts) :
                  /\ ErrorAlerts(result.validation_alerts,
                                 {"validation_error"}) = {i}
                  /\ result.validation_alerts[i].severity = "high"

\* C19, amended: the validators run in the order Price, Duplicate; an
\* exception inside the Price Validator becomes exactly one alert, of type
\* price_validation_error and severity high, placed first; the Duplicate
\* Validator runs all the same: it records the invoice or reports the
\* missing invoice number, and its alerts follow.
C19_ValidatorsIsolated ==
    (Returned /\ Succeeded(result)) =>
        /\ hist.validators = <<"price", "duplicate">>
        /\ ClaimPriceValidatorRaises =>
              /\ ErrorAlerts(result.validation_alerts,
                             {"validation_error", "price_validation_error",
                              "duplicate_validation_error"}) = {1}
              /\ result.validation_alerts[1].type = "price_validation_error"
              /\ result.validation_alerts[1].severity = "high"
              /\ \/ invoice_key(hist.coerce_out.d["invoice_number"],
                                hist.coerce_out.d["vendor_name"])
                        \in processed_invoices
                 \/ \E i \in 2..Len(result.validation_alerts) :
                        result.validation_alerts[i].type
                            = "missing_invoice_number"

\* a run in which the Price Validator failed inside and the Duplicate
\* Validator, running after it, found the invoice number of an earlier run
C19_Witness ==
    /\ Returned
    /\ Succeeded(result)
    /\ ClaimPriceValidatorRaises
    /\ hist.validators = <<"price", "duplicate">>
    /\ Len(result.validation_alerts) = 2
    /\ result.validation_alerts[1].type = "price_validation_error"
    /\ result.validation_alerts[2].type = "duplicate_invoice_number"

\* the alerts of type price_discrepancy in a list of alerts
Discrepancies(alerts) ==
    {i \in 1..Len(alerts) : alerts[i].type = "price_discrepancy"}

\* |a - b|
AbsDiff(a, b) == IF a >= b THEN a - b ELSE b - a

\* C20: for an item with a known unit_price new and a historical price
\* old, _validate_item_price returns a price_discrepancy alert exactly when
\* |new - old| / old > 0.05; its severity is medium when the change is below
\* 0.2 and high from 0.2 on. When the lookup returns no history there is no
\* price_discrepancy alert.
C20_PriceDiscrepancy ==
    (Returned /\ hist.item /= NoValue) =>
        LET new == hist.item.d["unit_price"]
            old == hist.historical_price
            D == Discrepancies(result)
        IN  /\ (new.t = "num" /\ new.v > 0 /\ old.t = "num" /\ old.v > 0) =>
                  /\ D /= {} <=> 100 * AbsDiff(new.v, old.v) > 5 * old.v
                  /\ Cardinality(D) <= 1
                  /\ \A i \in D :
                        result[i].severity
                            = IF 10 * AbsDiff(new.v, old.v) < 2 * old.v
                              THEN "medium" ELSE "high"
            /\ old.t = "null" => D = {}

\* the price went from 1.00 to 1.20, a change of exactly 0.2: one
\* price_discrepancy alert of severity high
C20_Witness ==
    /\ Returned
    /\ hist.item /= NoValue
    /\ hist.historical_price = [t |-> "num", v |-> 100]
    /\ hist.item.d["unit_price"] = [t |-> "num", v |-> 120]
    /\ Len(result) = 1
    /\ result[1].type = "price_discrepancy"
    /\ result[1].severity = "high"

\* the alerts of type unusual_price in a list of alerts
Unusual(alerts) ==
    {i \in 1..Len(alerts) : alerts[i].type = "unusual_price"}

\* C21: for an item with a numeric unit_price, _validate_item_price returns
\* an unusual_price alert, of severity low, exactly when unit_price > 100
\* (10000 cents), whether or not the lookup found a historical price and
\* whether or not a price_discrepancy alert was returned for the item.
C21_UnusualPrice ==
    (Returned /\ hist.item /= NoValue) =>
        LET new == hist.item.d["unit_price"]
            U == Unusual(result)
        IN  new.t = "num" =>
                /\ U /= {} <=> new.v > 10000
                /\ Cardinality(U) <= 1
                /\ \A i \in U : result[i].severity = "low"

\* the price went from 100.00 to 120.00: a price_discrepancy alert and,
\* after it, an unusual_price alert for the same item
C21_Witness ==
    /\ Returned
    /\ hist.item /= NoValue
    /\ hist.historical_price = [t |-> "num", v |-> 10000]
    /\ hist.item.d["unit_price"] = [t |-> "num", v |-> 12000]
    /\ Len(result) = 2
    /\ result[1].type = "price_discrepancy"
    /\ result[2].type = "unusual_price"
    /\ result[2].severity = "low"

\* the positions of the alerts of one type in a list of alerts
OfType(alerts, type) == {i \in 1..Len(alerts) : alerts[i].type = type}

\* a field of a record that is a number, or absent and counted as 0
ClaimAmount(data, key) ==
    IF key \in DOMAIN data.d THEN data.d[key].v ELSE 0

ClaimNumericOrAbsent(data, key) ==
    key \in DOMAIN data.d => data.d[key].t = "num"

\* C22: for a record with a numeric total, PriceValidator.validate returns
\* a total_mismatch alert, of severity medium, exactly when
\* |total - (subtotal + tax)| > 0.01 (one cent), an absent subtotal or tax
\* counting as 0. A total of 0.0 is treated as a missing total and is never
\* compared, and with items that are None the validator fails before it
\* looks at the total: this does not hold.
C22_TotalMismatch ==
    (Returned /\ hist.record /= NoValue) =>
        LET data == hist.record
            M == OfType(result, "total_mismatch")
        IN  ("total" \in DOMAIN data.d /\ data.d["total"].t = "num"
                /\ ClaimNumericOrAbsent(data, "subtotal")
                /\ ClaimNumericOrAbsent(data, "tax")) =>
                /\ M /= {} <=>
                      AbsDiff(data.d["total"].v,
                              ClaimAmount(data, "subtotal")
                                  + ClaimAmount(data, "tax")) > 1
                /\ \A i \in M : result[i].severity = "medium"

\* the items of the record are absent or a list
ClaimItemsIterable(data) ==
    "items" \in DOMAIN data.d => data.d["items"].t = "list"

\* the same for every total other than 0.0 of a record whose items are
\* absent or a list: this holds
TotalMismatchNonZero ==
    (Returned /\ hist.record /= NoValue
        /\ ClaimItemsIterable(hist.record)
        /\ "total" \in DOMAIN hist.record.d
        /\ hist.record.d["total"] /= [t |-> "num", v |-> 0])
    => C22_TotalMismatch

\* C23: for a record whose total is a number above 10000,
\* PriceValidator.validate returns a high_total alert of severity low,
\* whatever subtotal and tax are. With a subtotal or tax that is None or a
\* string, subtotal + tax or total - (subtotal + tax) raises before the
\* total is compared with 10000, and with items that are None the total is
\* not looked at: this does not hold.
C23_HighTotal ==
    (Returned /\ hist.record /= NoValue) =>
        LET data == hist.record
            H == OfType(result, "high_total")
        IN  ("total" \in DOMAIN data.d /\ data.d["total"].t = "num"
                /\ data.d["total"].v > 1000000) =>
                /\ H /= {}
                /\ \A i \in H : result[i].severity = "low"

\* the same when subtotal and tax are numbers or absent and the items are
\* absent or a list: this holds, with and without a total_mismatch alert
HighTotalNumeric ==
    (Returned /\ hist.record /= NoValue
        /\ ClaimItemsIterable(hist.record)
        /\ ClaimNumericOrAbsent(hist.record, "subtotal")
        /\ ClaimNumericOrAbsent(hist.record, "tax"))
    => C23_HighTotal

\* C24: in one process, the first submission of a (vendor, invoice_number)
\* pair gets no duplicate alert and every later submission of the pair gets
\* a duplicate_invoice_number alert of severity high: a successful run
\* carries the alert exactly when the key of its record was recorded
\* earlier in the process, and its own key is recorded afterwards. Through
\* the parse route every request has a DuplicateValidator of its own and
\* no submission is ever flagged: this does not hold.
C24_SecondSubmissionFlagged ==
    (Returned /\ Succeeded(result)) =>
        LET data == result.parsed_data
            key == invoice_key(data.d["invoice_number"],
                               data.d["vendor_name"])
            D == OfType(result.validation_alerts, "duplicate_invoice_number")
        IN  /\ D /= {} <=> key \in hist.submitted0
            /\ \A i \in D : result.validation_alerts[i].severity = "high"
            /\ key \in hist.submitted

\* the frames of the validate calls that have returned
DoneCallers == {c \in Callers : validating[c].pc = "done"}

\* the record has no invoice number: the key is absent, None or empty
ClaimNoInvoiceNumber(data) ==
    \/ "invoice_number" \notin DOMAIN data.d
    \/ data.d["invoice_number"].t = "null"
    \/ data.d["invoice_number"] = [t |-> "str", s |-> <<>>]

\* the positions in the log of the events of the call with this id
EventsOf(id) == {i \in 1..Len(hist.events) : hist.events[i].id = id}

\* C25: a validate call for a record without invoice number returns exactly
\* one alert, missing_invoice_number with severity high; it performs no
\* membership check and records no key.
C25_MissingInvoiceNumber ==
    \A c \in DoneCallers :
        ClaimNoInvoiceNumber(validating[c].data) =>
            /\ Len(validating[c].alerts) = 1
            /\ validating[c].alerts[1].type = "missing_invoice_number"
            /\ validating[c].alerts[1].severity = "high"
            /\ EventsOf(validating[c].id) = {}

\* after a call that recorded a key, a call with invoice number None
\* returned the alert and the set still holds that one key
C25_Witness ==
    \E c \in DoneCallers :
        /\ "invoice_number" \in DOMAIN validating[c].data.d
        /\ validating[c].data.d["invoice_number"].t = "null"
        /\ result = validating[c].alerts
        /\ Len(result) = 1
        /\ result[1].type = "missing_invoice_number"
        /\ Cardinality(processed_invoices) = 1
        /\ Len(hist.events) = 2

\* the ways the single LLM call of a run fails: the backend or the parsing
\* of its text raised, or the object it returned is incomplete
ClaimLlmCallFailed ==
    /\ hist.llm_outcome /= NoValue
    /\ \/ hist.llm_outcome.kind = "raise"
       \/ ClaimIncomplete(hist.llm_outcome.value)

\* C26: the LLM call is never retried: in every run generate_structured is
\* called at most once, and when that call fails (transport error, no JSON,
\* malformed JSON, incomplete schema) the run has returned
\* "LLM extraction failed" after that one call, the error of the call in
\* its details, with no later stage entered.
C26_NoLlmRetry ==
    /\ hist.llm_calls <= 1
    /\ hist.llm_calls = 1 <=> hist.llm_outcome /= NoValue
    /\ ClaimLlmCallFailed =>
          /\ Returned
          /\ Failed(result)
          /\ result.error = "LLM extraction failed"
          /\ hist.llm_outcome.kind = "raise"
                => result.details = hist.llm_outcome.exc
          /\ hist.llm_calls = 1
          /\ hist.stages = <<"OCR", "NORMALIZE", "EXTRACT">>

\* the second run of a pipeline failed because no JSON was found in the
\* response: one call was made in this run
C26_Witness ==
    /\ Returned
    /\ hist.ncalls = 2
    /\ hist.llm_outcome = Raise("No JSON found in response")
    /\ hist.llm_calls = 1
    /\ result.error = "LLM extraction failed"

\* the position in the log of the event op of the call with this id
EventPos(id, op) ==
    CHOOSE i \in 1..Len(hist.events) :
        hist.events[i].id = id /\ hist.events[i].op = op

\* the call of caller c returned a duplicate_invoice_number alert
Flagged(c) == OfType(validating[c].alerts, "duplicate_invoice_number") /= {}

\* the returned calls that had an invoice number
CheckedCallers ==
    {c \in DoneCallers : ~ClaimNoInvoiceNumber(validating[c].data)
                         /\ EventsOf(validating[c].id) /= {}}

\* C27: the set of seen keys is not safe for overlapping validate calls on
\* one instance. A call is flagged exactly when some call recorded its key
\* before its own membership check; so two calls for the same pair that
\* both check before either records both return without a
\* duplicate_invoice_number alert, and two returned calls for the same pair
\* are both unflagged only in that interleaving.
C27_CheckThenRecordRace ==
    /\ \A c \in CheckedCallers :
          Flagged(c) <=>
              \E i \in 1..(EventPos(validating[c].id, "check") - 1) :
                  /\ hist.events[i].op = "record"
                  /\ hist.events[i].key = frame_key(validating[c])
    /\ \A c, d \in CheckedCallers :
          (c /= d /\ frame_key(validating[c]) = frame_key(validating[d])
                /\ ~Flagged(c) /\ ~Flagged(d)) =>
              /\ EventPos(validating[c].id, "check")
                    < EventPos(validating[d].id, "record")
              /\ EventPos(validating[d].id, "check")
                    < EventPos(validating[c].id, "record")

\* two overlapping calls for the pair (A, 7): both checked before either
\* recorded, both returned no alert, and the key is in the set
C27_Witness ==
    /\ DoneCallers = Callers
    /\ \A c \in Callers :
          /\ {"invoice_number", "vendor_name"}
                \subseteq DOMAIN validating[c].data.d
          /\ validating[c].data.d["invoice_number"]
                = [t |-> "str", s |-> <<"7">>]
          /\ validating[c].alerts = <<>>
    /\ Len(hist.events) = 4
    /\ hist.events[1].op = "check"
    /\ hist.events[2].op = "check"
    /\ hist.events[3].op = "record"
    /\ hist.events[4].op = "record"
    /\ processed_invoices = {<<"A", ":", "7">>}

\* the fixed results of the adapters that are not available
ClaimTesseractUnavailable ==
    [success |-> FALSE, error |-> "Tesseract not available"]

ClaimEasyOcrUnavailable ==
    [success |-> FALSE, error |-> "EasyOCR not implemented yet"]

\* C28: availability is fixed when the adapters are built. An unavailable
\* Tesseract adapter returns the same fixed failure in every call and never
\* reaches its backend, so no call of that manager ever succeeds; the
\* EasyOCR adapter, never available, returns its fixed failure whenever it
\* is invoked. The manager handles the fixed failure like a failure of the
\* backend: with primary tesseract it makes the one fallback attempt, and
\* when that fails too the call counts as one failed extraction.
C28_UnavailableIsFailure ==
    /\ (primary_engine = "tesseract" /\ ~tesseract_available) =>
          /\ hist.backend_calls = 0
          /\ stats.successful_extractions = 0
          /\ hist.confs = <<>>
          /\ hist.primary_result /= NoValue =>
                hist.primary_result = ClaimTesseractUnavailable
    /\ hist.fallback_result /= NoValue =>
          hist.fallback_result = ClaimEasyOcrUnavailable
    /\ (primary_engine = "easyocr" /\ hist.primary_result /= NoValue) =>
          hist.primary_result = ClaimEasyOcrUnavailable
    /\ (Returned /\ primary_engine = "tesseract"
            /\ hist.primary_result /= NoValue
            /\ Failed(hist.primary_result)) =>
          /\ hist.calls = <<"tesseract", "easyocr">>
          /\ Failed(result)
          /\ stats.failed_extractions = hist.stats0.failed_extractions + 1
          /\ stats.total_processed = hist.stats0.total_processed + 1

\* the third call on a manager whose Tesseract adapter is unavailable: the
\* fixed failure again, the fallback tried, three failed extractions
C28_Witness ==
    /\ Returned
    /\ primary_engine = "tesseract"
    /\ ~tesseract_available
    /\ hist.ncalls = 3
    /\ hist.primary_result = ClaimTesseractUnavailable
    /\ hist.calls = <<"tesseract", "easyocr">>
    /\ hist.backend_calls = 0
    /\ stats.failed_extractions = 3
    /\ stats.total_processed = 3

\* the place of an alert type in the validation chain: item alerts, the
\* two total alerts, then the alerts of the Duplicate Validator
ClaimRank(type) ==
    CASE type \in {"price_discrepancy", "unusual_price",
                   "price_validation_error"} -> 1
      [] type = "total_mismatch" -> 2
      [] type = "high_total" -> 3
      [] OTHER -> 4

IsItemAlert(a) == a.type \in {"price_discrepancy", "unusual_price"}

\* an item of the validated record priced above 100, for which the Price
\* Validator of the pipeline (it has no price history) gives one alert
IsPricedHigh(item) ==
    /\ item.t = "dict"
    /\ "unit_price" \in DOMAIN item.d
    /\ item.d["unit_price"].t = "num"
    /\ item.d["unit_price"].v > 10000

\* C29: the alerts of a result are in the order of the validation chain:
\* the item alerts, in the order of the line items, then total_mismatch,
\* then high_total, then the alerts of the Duplicate Validator; no alert of
\* the Duplicate Validator comes before an alert of the Price Validator.
C29_AlertOrder ==
    (Returned /\ Succeeded(result)) =>
        LET A == result.validation_alerts
            I == SelectSeq(A, IsItemAlert)
            E == SelectSeq(ItemsOf(hist.coerce_out), IsPricedHigh)
        IN  /\ \A i, j \in 1..Len(A) :
                  i < j => ClaimRank(A[i].type) <= ClaimRank(A[j].type)
            /\ Len(I) = Len(E)
            /\ \A k \in 1..Len(I) : I[k].about = E[k].d["description"]

\* the second run for an invoice with three items, two of them priced above
\* 100, and a total above 10000 that is not subtotal + tax: five alerts
C29_Witness ==
    /\ Returned
    /\ Succeeded(result)
    /\ Len(result.validation_alerts) = 5
    /\ result.validation_alerts[1].type = "unusual_price"
    /\ result.validation_alerts[1].about = [t |-> "str", s |-> <<"b">>]
    /\ result.validation_alerts[2].type = "unusual_price"
    /\ result.validation_alerts[2].about = [t |-> "str", s |-> <<"c">>]
    /\ result.validation_alerts[3].type = "total_mismatch"
    /\ result.validation_alerts[4].type = "high_total"
    /\ result.validation_alerts[5].type = "duplicate_invoice_number"

\* the counters of an Extraction Manager add up and are not negative
ClaimCountersAddUp(s) ==
    /\ s.total_processed = s.successful_extractions + s.failed_extractions
    /\ s.total_processed >= 0
    /\ s.successful_extractions >= 0
    /\ s.failed_extractions >= 0

\* the success rate n/d of a report lies in [0, 1] and is a division by a
\* number that is not zero
ClaimRateInUnitInterval(rate) ==
    /\ rate.d > 0
    /\ 0 <= rate.n
    /\ rate.n <= rate.d

\* no step makes a counter of the Extraction Manager smaller
ClaimCountersGrow ==
    /\ stats'.total_processed >= stats.total_processed
    /\ stats'.successful_extractions >= stats.successful_extractions
    /\ stats'.failed_extractions >= stats.failed_extractions

\* C30: in every state of an Extraction Manager total_processed is
\* successful_extractions + failed_extractions, no counter is negative, no
\* step decreases a counter, and every report of get_stats has a
\* success_rate in [0, 1], which is 0 when nothing was processed.
C30_StatsConsistent ==
    /\ [](/\ ClaimCountersAddUp(stats)
          /\ hist.reported /= NoValue =>
               /\ ClaimCountersAddUp(hist.reported)
               /\ ClaimRateInUnitInterval(hist.reported.success_rate)
               /\ hist.reported.total_processed = 0 =>
                    hist.reported.success_rate.n = 0)
    /\ [][ClaimCountersGrow]_vars

\* get_stats was read before any call was counted, and read after one
\* success and one failure
C30_WitnessBeforeAnyCall ==
    /\ hist.reported /= NoValue
    /\ hist.reported.total_processed = 0
    /\ hist.reported.success_rate = [n |-> 0, d |-> 1]

C30_Witness ==
    /\ hist.reported /= NoValue
    /\ hist.reported.total_processed = 2
    /\ hist.reported.successful_extractions = 1
    /\ hist.reported.failed_extractions = 1
    /\ hist.reported.success_rate = [n |-> 1, d |-> 2]

\* C31: the fallback never turns a failure into a success. A call of
\* extract_text succeeds exactly when the primary engine is tesseract and
\* the Tesseract adapter succeeded in that call; with primary easyocr the
\* Tesseract adapter is never invoked; with an unknown primary engine name
\* a call on a valid file ends, after the one fallback attempt, in a failure
\* result, and no exception leaves extract_text.
C31_FallbackNeverSucceeds ==
    /\ ~escaped
    /\ pc /= "raised"
    /\ hist.fallback_result /= NoValue => Failed(hist.fallback_result)
    /\ primary_engine = "easyocr" =>
          /\ \A i \in 1..Len(hist.calls) : hist.calls[i] /= "tesseract"
          /\ hist.backend_calls = 0
    /\ Returned =>
          /\ Succeeded(result) <=>
                /\ primary_engine = "tesseract"
                /\ hist.primary_result /= NoValue
                /\ Succeeded(hist.primary_result)
                /\ hist.calls = <<"tesseract">>
          /\ ~Succeeded(result) => Failed(result)
          /\ (primary_engine \notin {"tesseract", "easyocr"}
                  /\ ~hist.rejected /\ ~hist.caught) =>
                /\ hist.calls = <<"easyocr">>
                /\ Failed(hist.primary_result)
                /\ result = ClaimEasyOcrUnavailable

\* a manager built with an unknown engine name was given a valid file: the
\* name is refused, the fallback is tried and the call returns its failure
C31_Witness ==
    /\ Returned
    /\ primary_engine = "paddle"
    /\ ~hist.rejected
    /\ ~hist.caught
    /\ hist.calls = <<"easyocr">>
    /\ result = ClaimEasyOcrUnavailable

\* a call that succeeded: primary tesseract, no fallback
C31_WitnessSuccess ==
    /\ Returned
    /\ Succeeded(result)
    /\ primary_engine = "tesseract"
    /\ hist.calls = <<"tesseract">>

\* a call of generate_structured on a client with the repair pass was made
\* and generate returned a text
ClaimOllamaAnswered ==
    /\ hist.ncalls > 0
    /\ llm_client /= "GeminiClient"
    /\ hist.response /= NoValue
    /\ hist.response.kind = "return"

\* what the first attempt alone does with a text: the parse of the text
\* from its first '{' to its last '}'
ClaimFirstAttempt(text) ==
    LET j == json_span(text)
    IN  IF j.kind = "raise" THEN j ELSE json_loads(j.value)

\* C32: the repair pass of OllamaClient.generate_structured accepts no
\* response the first attempt refused: a response is accepted exactly when
\* the text from its first '{' to its last '}' parses, the value returned is
\* that of the first parse, and a call that went into the repair pass
\* (a second json.loads) raises. Where the first '{' comes before the last
\* '}', the repair pass parses the very text the first attempt parsed.
C32_RepairAcceptsNothingNew ==
    ClaimOllamaAnswered =>
        LET text == hist.response.value
            first == ClaimFirstAttempt(text)
        IN  /\ result.kind = "return" <=> first.kind = "return"
            /\ result.kind = "return" => result = first
            /\ hist.parses = 2 =>
                  /\ result.kind = "raise"
                  /\ find(text, "{") < rfind(text, "}") =>
                        cleaned_response(text) = json_span(text).value

\* the repair pass ran on a JSON object followed by a stray '}' and failed
\* as the first attempt had
C32_Witness ==
    /\ ClaimOllamaAnswered
    /\ hist.response.value = <<"{", "}", "}">>
    /\ hist.parses = 2
    /\ result.kind = "raise"

\* the repair pass ran on a text whose last '}' comes before its first '{':
\* it parsed another text than the first attempt, and failed too
C32_WitnessOtherText ==
    /\ ClaimOllamaAnswered
    /\ hist.parses = 2
    /\ rfind(hist.response.value, "}") < find(hist.response.value, "{")
    /\ cleaned_response(hist.response.value)
          /= json_span(hist.response.value).value
    /\ result.kind = "raise"

\* C33: update_price_history has no effect on validation. After any
\* sequence of update_price_history and validate calls, the alerts validate
\* returns hold no price_discrepancy and are the alerts it returns for the
\* same record on a validator that recorded nothing.
C33_HistoryNeverRead ==
    (hist.ncalls > 0 /\ hist.record /= NoValue) =>
        /\ OfType(result, "price_discrepancy") = {}
        /\ result = price_validate(hist.record, {}).value

\* validate ran on an item "a" priced 1.50 for vendor "A" after the price
\* 1.00 had been recorded for that vendor and item: a change of 50% that a
\* lookup in the history would report
C33_Witness ==
    /\ hist.ncalls > 0
    /\ hist.record /= NoValue
    /\ [key |-> <<"A", ":", "a">>, price |-> 100] \in hist.history0
    /\ ItemsOf(hist.record) = <<PricedItem("a", 150)>>
    /\ result = <<>>

\* C34: a call returns a duplicate_invoice_number alert only if a call for
\* the very same (vendor, invoice_number) pair recorded its key before: no
\* two different pairs share a key.
C34_DistinctPairsDistinctKeys ==
    \A c \in CheckedCallers :
        Flagged(c) =>
            \E i \in 1..(EventPos(validating[c].id, "check") - 1) :
                /\ hist.events[i].op = "record"
                /\ hist.events[i].pair = frame_pair(validating[c])

\* what holds instead: a flagged call follows a call that recorded the same
\* key, whatever its pair was
FlaggedOnlyOnRecordedKey ==
    \A c \in CheckedCallers :
        Flagged(c) =>
            \E i \in 1..(EventPos(validating[c].id, "check") - 1) :
                /\ hist.events[i].op = "record"
                /\ hist.events[i].key = frame_key(validating[c])

\* the pair (A, B:C) was flagged after the only other call, for the pair
\* (A:B, C), had recorded the key A:B:C
ColonPairsCollide ==
    /\ Len(hist.events) = 4
    /\ hist.events[2].op = "record"
    /\ hist.events[2].pair = [vendor_name |-> [t |-> "str",
                                               s |-> <<"A", ":", "B">>],
                              invoice_number |-> [t |-> "str",
                                                  s |-> <<"C">>]]
    /\ hist.events[4].op = "record"
    /\ hist.events[4].pair = [vendor_name |-> [t |-> "str", s |-> <<"A">>],
                              invoice_number |-> [t |-> "str",
                                                  s |-> <<"B", ":", "C">>]]
    /\ processed_invoices = {<<"A", ":", "B", ":", "C">>}
    /\ \E c \in DoneCallers :
          /\ validating[c].id = hist.events[4].id
          /\ Flagged(c)

\* C35: a run of the pipeline that aborts (at OCR or at EXTRACT) leaves
\* the set of seen keys and the price history of its pipeline as they were
\* when the run began; a successful run leaves the set of seen keys as it
\* was plus the one key of the vendor and invoice number it parsed, and the
\* price history as it was.
C35_ValidatorStateFrame ==
    Returned =>
        /\ price_history = hist.history0
        /\ Failed(result) => processed_invoices = hist.processed0
        /\ Succeeded(result) =>
              /\ {"invoice_number", "vendor_name"}
                    \subseteq DOMAIN result.parsed_data.d
              /\ processed_invoices =
                    hist.processed0
                    \cup {invoice_key(result.parsed_data.d["invoice_number"],
                                      result.parsed_data.d["vendor_name"])}

\* a run aborted on a pipeline that had recorded a key in an earlier run
C35_Witness ==
    /\ Returned
    /\ Failed(result)
    /\ hist.processed0 /= {}
    /\ processed_invoices = hist.processed0

\* a second successful run, for another invoice number: two keys
C35_WitnessSuccess ==
    /\ Returned
    /\ Succeeded(result)
    /\ Cardinality(hist.processed0) = 1
    /\ Cardinality(processed_invoices) = 2

\* the positions in the log, before position n, where the set of seen keys
\* was emptied or replaced
ResetsBefore(n) ==
    {i \in 1..(n - 1) : hist.events[i].op \in {"clear", "new"}}

\* the positions in the log, before position n, where the key was recorded
RecordsBefore(key, n) ==
    {i \in 1..(n - 1) : hist.events[i].op = "record"
                        /\ hist.events[i].key = key}

\* C36: the set of seen keys belongs to one validator and so to one
\* pipeline. A call is flagged exactly when its key was recorded before its
\* check and the set was neither emptied by clear_cache nor replaced by that
\* of a new validator in between; so a pair validated on one instance is
\* not flagged on the next instance, and a pair seen before clear_cache is
\* not flagged on its next submission.
C36_SeenSetPerInstance ==
    \A c \in CheckedCallers :
        LET n == EventPos(validating[c].id, "check")
        IN  Flagged(c) <=>
                \E i \in RecordsBefore(frame_key(validating[c]), n) :
                    \A j \in ResetsBefore(n) : j < i

\* the pair (A, 7) was recorded, clear_cache was called, and the next call
\* for (A, 7) returned no alert
C36_Witness ==
    /\ Len(hist.events) = 5
    /\ hist.events[2].op = "record"
    /\ hist.events[2].key = <<"A", ":", "7">>
    /\ hist.events[3].op = "clear"
    /\ hist.events[5].op = "record"
    /\ hist.events[5].key = <<"A", ":", "7">>
    /\ validating[1].pc = "done"
    /\ validating[1].alerts = <<>>

\* the same with a new validator in place of clear_cache
C36_WitnessNewInstance ==
    /\ Len(hist.events) = 5
    /\ hist.events[2].op = "record"
    /\ hist.events[2].key = <<"A", ":", "7">>
    /\ hist.events[3].op = "new"
    /\ hist.events[5].op = "record"
    /\ hist.events[5].key = <<"A", ":", "7">>
    /\ validating[1].pc = "done"
    /\ validating[1].alerts = <<>>

\* through the parse route, which builds a pipeline for every request, no
\* result holds a duplicate_invoice_number alert, also when the key was
\* recorded by an earlier request
RouteNeverFlags ==
    (Returned /\ Succeeded(result)) =>
        OfType(result.validation_alerts, "duplicate_invoice_number") = {}

RouteResubmitted ==
    /\ Returned
    /\ Succeeded(result)
    /\ \E k \in hist.submitted0 : k \in processed_invoices
    /\ OfType(result.validation_alerts, "duplicate_invoice_number") = {}

\* a value Python takes for false: None, "", 0, []
ClaimFalsy(v) ==
    \/ v.t = "null"
    \/ v.t = "str" /\ v.s = <<>>
    \/ v.t = "num" /\ v.v = 0
    \/ v.t = "list" /\ v.e = <<>>

\* the response of the LLM has a required field that is falsy
ClaimFalsyRequired(data) ==
    /\ data.t = "dict"
    /\ \E i \in 1..Len(required_fields) :
          /\ required_fields[i] \in DOMAIN data.d
          /\ ClaimFalsy(data.d[required_fields[i]])

\* C37: the required-field check takes every falsy value for missing: a
\* run whose LLM response has a required field that is None, "", 0 or []
\* aborts with "LLM extraction failed"; and so no successful result has a
\* parsed_data.total equal to 0.
C37_NoZeroTotal ==
    /\ (Returned /\ hist.llm_outcome /= NoValue
           /\ hist.llm_outcome.kind = "return"
           /\ ClaimFalsyRequired(hist.llm_outcome.value)) =>
          /\ Failed(result)
          /\ result.error = "LLM extraction failed"
    /\ (Returned /\ Succeeded(result)) =>
          /\ "total" \in DOMAIN result.parsed_data.d
          /\ result.parsed_data.d["total"] /= [t |-> "num", v |-> 0]

\* the part that holds: a falsy required field in the response aborts the
\* run at EXTRACT
FalsyRequiredAborts ==
    (Returned /\ hist.llm_outcome /= NoValue
        /\ hist.llm_outcome.kind = "return"
        /\ ClaimFalsyRequired(hist.llm_outcome.value)) =>
       /\ Failed(result)
       /\ result.error = "LLM extraction failed"

\* a run aborted on a response whose total is the number 0
ZeroTotalRejected ==
    /\ Returned
    /\ hist.llm_outcome = Return(put(GoodInvoice, "total", JNum(0)))
    /\ Failed(result)
    /\ result.error = "LLM extraction failed"

\* a run succeeded on a response whose total is the string "$0.00": the
\* check accepted the string and the coercion made it the number 0
ZeroTotalSucceeded ==
    /\ Returned
    /\ Succeeded(result)
    /\ hist.llm_outcome =
          Return(put(GoodInvoice, "total", JStr(<<"$", "0", ".", "0", "0">>)))
    /\ result.parsed_data.d["total"] = [t |-> "num", v |-> 0]

\* the characters of a text that are no whitespace, in order
ClaimIsInk(ch) == ch \notin Whitespace

ClaimInk(s) == SelectSeq(s, ClaimIsInk)

\* the whitespace runs of a text that have a word before and after them
ClaimGaps(s) ==
    {i \in 1..(Len(s) - 1) :
        /\ s[i] \in Whitespace
        /\ s[i + 1] \notin Whitespace
        /\ \E j \in 1..(i - 1) : s[j] \notin Whitespace}

\* what the normalizer makes of one character that is no whitespace
ClaimReplaced(ch) ==
    IF ch = "|" THEN "I" ELSE IF ch = "0" THEN "O" ELSE ch

\* C38: the normalized text is the fixed header, the body and the fixed
\* footer. The body holds the characters of the input that are no
\* whitespace, in order, with every '|' as 'I' and every '0' as 'O', and one
\* space for every whitespace run between two words, none at its ends; the
\* normalized text holds no '0' and no '|'; and normalizing the normalized
\* text gives another text.
C38_NormalizedText ==
    run.processed_text /= NoValue =>
        LET raw == run.raw_text
            out == run.processed_text
            n == Len(out) - Len(Header) - Len(Footer)
            body == SubSeq(out, Len(Header) + 1, Len(Header) + n)
        IN  /\ n >= 0
            /\ out = Header \o body \o Footer
            /\ \A i \in 1..n : body[i] \in Whitespace => body[i] = " "
            /\ \A i \in 1..(n - 1) : ~(body[i] = " " /\ body[i + 1] = " ")
            /\ n > 0 => (body[1] /= " " /\ body[n] /= " ")
            /\ ClaimInk(body)
                  = [i \in 1..Len(ClaimInk(raw)) |->
                        ClaimReplaced(ClaimInk(raw)[i])]
            /\ Cardinality({i \in 1..n : body[i] = " "})
                  = Cardinality(ClaimGaps(raw))
            /\ \A i \in 1..Len(out) : out[i] \notin {"0", "|"}
            /\ result /= NoValue => result /= out

\* the text "0", space, newline, "|" was normalized to the body "O I", and
\* the normalized text was normalized again
C38_Witness ==
    /\ run.processed_text /= NoValue
    /\ run.raw_text = <<"0", " ", "\n", "|">>
    /\ run.processed_text = Header \o <<"O", " ", "I">> \o Footer
    /\ result /= NoValue
    /\ result /= run.processed_text

====
